---- MODULE Spec2Model ----
(***************************************************************************)
(* Model of the sluice / ringtail byte pipes.                              *)
(*                                                                         *)
(*   - arrays.rs           CircularArray, copy helpers                     *)
(*   - buffers/atomic.rs   the SPSC ring buffer (Reader / Writer / Inner)  *)
(*   - internal/sync.rs    Signal                                          *)
(*   - io.rs               the blocking pipe (PipeReader / PipeWriter)     *)
(*   - pipe/chunked.rs     the chunked pipe (Reader / Writer)              *)
(*                                                                         *)
(* Every atomic load, store and read-modify-write of the source is one     *)
(* step of the thread that performs it, so that the model checker explores *)
(* every interleaving of one reader thread and one writer thread.          *)
(***************************************************************************)
EXTENDS Integers, Sequences, FiniteSets, TLC

(***************************************************************************)
(* Bounds of the model.                                                    *)
(***************************************************************************)
\* Width in bits of the cursors (usize in the source).
CursorBits == 3
\* Longest slice handed to push / write, and longest destination slice.
MaxSlice == 2
\* Total number of bytes push accepts over a run of the ring buffer.
MaxTotal == 9
\* Total number of bytes write accepts over a run of the pipe.
MaxPipeTotal == 3
\* Largest number of chunks of a chunked pipe.
MaxCount == 2
\* Number of successful poll_write calls over a run of the chunked pipe.
MaxWrites == 3
\* Largest capacity a buffer is requested with.  The array it is given is
\* no longer than half the range of a cursor.
MaxCapacity == 3

\* The byte values: the i-th byte the writer offers for position i of the
\* stream has the value i, so that every byte of the stream is distinct.
Byte == 1..MaxTotal

\* The n bytes that follow the first k bytes of the stream.
Stream(k, n) == [i \in 1..n |-> k + i]

\* Marks a slot of the array that was allocated but never written.
Uninit == -1

RECURSIVE Pow2(_)
Pow2(n) == IF n = 0 THEN 1 ELSE 2 * Pow2(n - 1)

\* usize arithmetic wraps modulo 2^CursorBits.
Modulus == Pow2(CursorBits)

wrapping_add(a, b) == (a + b) % Modulus

wrapping_sub_plain(a, b) == a - b

wrapping_sub(a, b) == (a - b + Modulus) % Modulus


Min(a, b) == IF a <= b THEN a ELSE b

\* Bitwise and of two naturals.
RECURSIVE BitAnd(_, _)
BitAnd(a, b) ==
    IF a = 0 \/ b = 0 THEN 0
    ELSE ((a % 2) * (b % 2)) + 2 * BitAnd(a \div 2, b \div 2)

\* usize::next_power_of_two: the smallest power of two >= n.
RECURSIVE NextPow2From(_, _)
NextPow2From(n, p) == IF p >= n THEN p ELSE NextPow2From(n, 2 * p)

next_power_of_two(n) == NextPow2From(n, 1)

(***************************************************************************)
(* arrays.rs.  A slice of the circular array is modelled by the sequence   *)
(* of the physical indices it covers.                                      *)
(***************************************************************************)
\* The physical indices a, a+1, ..., b-1.
IndexRange(a, b) == [i \in 1..(b - a) |-> a + i - 1]

\* CircularArray::uninitialized
uninitialized(len) == [i \in 1..next_power_of_two(len) |-> Uninit]

\* CircularArray::internal_index
internal_index(arr, virtual_index) == BitAnd(virtual_index, Len(arr) - 1)

\* CircularArray::as_slices and as_slices_mut: the two slices of a virtual range.
as_slices(arr, from, to) ==
    LET start == internal_index(arr, from)
        end   == internal_index(arr, to)
    IN  IF start < end
        THEN << IndexRange(start, end), << >> >>
        ELSE << IndexRange(start, Len(arr)), IndexRange(0, end) >>

\* arrays::copy: the number of elements copied from a source of length n
\* into a destination of length m.
copy(n, m) == Min(n, m)

\* arrays::copy_from_seq: gather the slices into a destination of length
\* destLen.  The result is the sequence of physical indices read, in order.
RECURSIVE copy_from_seq(_, _)
copy_from_seq(slices, destLen) ==
    IF slices = << >> \/ destLen = 0 THEN << >>
    ELSE LET n == copy(Len(Head(slices)), destLen)
         IN  SubSeq(Head(slices), 1, n) \o copy_from_seq(Tail(slices), destLen - n)

\* arrays::copy_to_seq: scatter a source of length srcLen over the slices.
\* The result is the sequence of physical indices written: its i-th element
\* receives the i-th element of the source.
RECURSIVE copy_to_seq(_, _)
copy_to_seq(srcLen, slices) ==
    IF slices = << >> \/ srcLen = 0 THEN << >>
    ELSE LET n == copy(srcLen, Len(Head(slices)))
         IN  SubSeq(Head(slices), 1, n) \o copy_to_seq(srcLen - n, Tail(slices))

\* The elements of a sequence.
Range(s) == {s[i] : i \in 1..Len(s)}

\* The array after the source has been stored at the given physical indices.
Store(arr, idx, src) ==
    [p \in 1..Len(arr) |->
        IF \E i \in 1..Len(idx) : idx[i] = p - 1
        THEN src[CHOOSE i \in 1..Len(idx) : idx[i] = p - 1]
        ELSE arr[p]]

\* The values a read of the given physical indices can produce.  A slot
\* that was never written, or that the other thread is writing, holds an
\* arbitrary byte.
Load(arr, idx, racy) ==
    {d \in [1..Len(idx) -> Byte] :
        \A i \in 1..Len(idx) :
            (arr[idx[i] + 1] # Uninit /\ idx[i] \notin racy) => d[i] = arr[idx[i] + 1]}

IsPrefix(s, t) == Len(s) <= Len(t) /\ s = SubSeq(t, 1, Len(s))

(***************************************************************************)
(* State.                                                                  *)
(***************************************************************************)
VARIABLES
    array,      \* Inner.array: the slots of the circular array
    head,       \* Inner.head
    tail,       \* Inner.tail
    w,          \* the writer thread: program counter and locals
    r,          \* the reader thread: program counter and locals
    accepted,   \* history: the bytes push has accepted, in order
    nconsumed,  \* history: the number of bytes consume has discarded
    obtained,   \* history: the bytes taken out by pull and consume, in order
    logging,    \* whether the run keeps the three histories
    builder,    \* PipeBuilder: the capacity the buffer was requested with
    chunk_count, \* chunked::new(count); 0 when no chunked pipe was created
    buf_pool,   \* the channel of reusable chunks, reader to writer
    buf_stream, \* the channel of written chunks, writer to reader
    reader,     \* chunked::Reader and the thread that owns it
    writer,     \* chunked::Writer and the thread that owns it
    written,    \* history: the buffers of the successful poll_write calls
    drop_flag,      \* the closed flag shared by the two ends of a pipe
    empty_signal,   \* the data-available Signal: the reader waits on it
    full_signal,    \* the space-available Signal: the writer waits on it
    Buffer          \* lib.rs: the growable Buffer, and what its last call returned

ringVars == << array, head, tail >>

\* The chunked pipe.
chunkedVars == << chunk_count, buf_pool, buf_stream, reader, writer, written >>

\* What no operation of the ring buffer and of the blocking pipe changes.
sideVars == << logging, builder, chunkedVars, Buffer >>

histVars == << accepted, nconsumed, obtained, sideVars >>

pipeVars == << drop_flag, empty_signal, full_signal >>

\* Inner::capacity
capacity == Len(array)

\* Inner::len
len == wrapping_sub(tail, head)

\* The slots the writer is storing into, and the slots the reader is loading.
wslots == IF w.pc = "push_copy" THEN Range(w.idx) ELSE {}

rslots == IF r.pc = "copy" THEN Range(r.idx) ELSE {}

\* A thread is a record: pc is its position in the operation op it is
\* running (or has last run, when pc = "idle"), ctx tells the first attempt
\* of a pipe operation from the retry after a wait, the other fields are
\* the locals of the operation, its result and the flags of the pipe end.
\* Four fields are history: parked (the call has blocked in Condvar::wait),
\* fed (the peer has returned from a successful transfer while this call
\* was blocked there), closed0 (the closed flag when the call began) and
\* mark (tail and the array, and for push also head, when the call began).
\* For the threads that use a Signal directly: notifies (the notify calls
\* that have set the flag), waits (the wait calls that have returned) and
\* cleared (the value of notifies when a wait last cleared the flag).
\* For the reader of a pipe: eof (a read called with a non-empty buffer has
\* returned Ok(0)).
WriterInit ==
    [pc |-> "idle", op |-> "none", ctx |-> "first", src |-> << >>, head |-> 0,
     tail |-> 0, idx |-> << >>, ret |-> 0, result |-> "none",
     nonblocking |-> FALSE, parked |-> FALSE, fed |-> FALSE, orphaned |-> FALSE,
     len0 |-> 0, closed0 |-> FALSE, mark |-> << >>, notifies |-> 0]

ReaderInit ==
    [pc |-> "idle", op |-> "none", ctx |-> "first", destLen |-> 0, head |-> 0,
     tail |-> 0, idx |-> << >>, racy |-> {}, dest |-> << >>, n |-> 0, count |-> 0,
     ret |-> 0, result |-> "none", nonblocking |-> FALSE, parked |-> FALSE,
     fed |-> FALSE, orphaned |-> FALSE, closed0 |-> FALSE, mark |-> << >>,
     waits |-> 0, cleared |-> 0, eof |-> FALSE]

\* atomic::bounded and Inner::new
bounded(cap) ==
    /\ array = uninitialized(cap)
    /\ head = 0
    /\ tail = 0

(***************************************************************************)
(* buffers/atomic.rs: Writer::push.                                        *)
(***************************************************************************)
\* History kept when an operation returns: for a push called on the buffer,
\* whether head is what it was when the push was called (no consume in
\* between); for a write, the mark of the call.
Quiet(rec) ==
    IF rec.op # "push" THEN rec.mark
    ELSE IF logging THEN << head = rec.mark[3] >> ELSE << >>

\* A write that forgets the non-blocking flag when push returns 0.
PushReturn_waits(rec, n) ==
    LET done == [rec EXCEPT !.ret = n, !.idx = << >>, !.head = 0, !.tail = 0]
    IN  CASE rec.op = "write" /\ rec.ctx = "first" /\ n > 0 ->
                [done EXCEPT !.pc = "notify_store"]
          [] rec.op = "write" /\ rec.ctx = "first" /\ n = 0 ->
                [done EXCEPT !.pc = "wait_fast"]
          [] OTHER ->
                [done EXCEPT !.pc = "idle", !.result = "ok", !.src = << >>,
                             !.mark = Quiet(rec)]

\* The writer when push returns n.  Called directly, the operation is over.
\* Inside PipeWriter::write: the first push notifies the data-available
\* signal if it pushed something, else fails with WouldBlock in non-blocking
\* mode, else waits on the space-available signal; what the push after the
\* wait returns is what write returns.
PushReturn(rec, n) ==
    LET done == [rec EXCEPT !.ret = n, !.idx = << >>, !.head = 0, !.tail = 0]
    IN  CASE rec.op = "write" /\ rec.ctx = "first" /\ n > 0 ->
                [done EXCEPT !.pc = "notify_store"]
          [] rec.op = "write" /\ rec.ctx = "first" /\ n = 0 /\ rec.nonblocking ->
                [done EXCEPT !.pc = "idle", !.result = "would_block", !.src = << >>]
          [] rec.op = "write" /\ rec.ctx = "first" /\ n = 0 /\ ~rec.nonblocking ->
                [done EXCEPT !.pc = "wait_fast"]
          [] OTHER ->
                [done EXCEPT !.pc = "idle", !.result = "ok", !.src = << >>,
                             !.mark = Quiet(rec)]

\* A full test that lets a push through when the buffer is exactly full.
PushIsFull_beyond(t, h) == wrapping_sub(t, h) > capacity

\* The peer after this thread's step: if the step returns from a successful
\* transfer (a read or write of n >= 1 bytes) while the peer is blocked in
\* Condvar::wait, the peer's history records it.
Fed(peer, next) ==
    IF /\ next.pc = "idle" /\ next.op \in {"read", "write"}
       /\ next.result = "ok" /\ next.ret > 0
       /\ peer.pc = "wait_parked"
    THEN [peer EXCEPT !.fed = TRUE]
    ELSE peer

\* History: the other end is dropped while peer is blocked in Condvar::wait.
Orphaned(peer) ==
    IF peer.pc = "wait_parked" THEN [peer EXCEPT !.orphaned = TRUE] ELSE peer

\* The full test of push.
PushIsFull(t, h) == wrapping_sub(t, h) = capacity

\* A window that leaves out the slice that wraps to the start of the array.
PushWindow_first(t, h) == << as_slices(array, t, h)[1], << >> >>

\* The free window push scatters into.
PushWindow(t, h) == as_slices(array, t, h)

\* let head = self.inner.head.load(SeqCst)
PushLoadHead ==
    /\ w.pc = "push_head"
    /\ w' = [w EXCEPT !.pc = "push_tail", !.head = head]
    /\ UNCHANGED << pipeVars, ringVars, r, histVars >>

\* let tail = self.inner.tail.load(SeqCst); the full test; the slices
PushLoadTail ==
    /\ w.pc = "push_tail"
    /\ IF PushIsFull(tail, w.head)
       THEN /\ w' = PushReturn(w, 0)
            /\ UNCHANGED r
       ELSE LET idx == copy_to_seq(Len(w.src), PushWindow(tail, w.head))
            IN  /\ w' = [w EXCEPT !.pc = "push_copy", !.tail = tail, !.idx = idx]
                /\ r' = [r EXCEPT !.racy = @ \cup (Range(idx) \cap rslots)]
    /\ UNCHANGED << pipeVars, ringVars, histVars >>

\* arrays::copy_to_seq(src, &mut slices)
PushCopy ==
    /\ w.pc = "push_copy"
    /\ array' = Store(array, w.idx, w.src)
    /\ w' = [w EXCEPT !.pc = "push_publish"]
    /\ UNCHANGED << pipeVars, head, tail, r, histVars >>

\* self.inner.tail.fetch_add(pushed, SeqCst); pushed
PushPublish ==
    /\ w.pc = "push_publish"
    /\ tail' = wrapping_add(tail, Len(w.idx))
    /\ accepted' = IF logging THEN accepted \o SubSeq(w.src, 1, Len(w.idx)) ELSE accepted
    /\ w' = PushReturn(w, Len(w.idx))
    /\ r' = Fed(r, w')
    /\ UNCHANGED << pipeVars, array, head, nconsumed, obtained, sideVars >>

(***************************************************************************)
(* buffers/atomic.rs: Reader::copy_to, Reader::consume; buffers/mod.rs:    *)
(* ReadableBuffer::pull.                                                   *)
(***************************************************************************)
\* pull is running, called directly or by PipeReader::read.
InPull(rec) == rec.op \in {"pull", "read"}

\* The reader when copy_to returns n with the bytes d: pull goes on to
\* consume(n).
CopyToReturn(rec, d, n) ==
    LET done == [rec EXCEPT !.dest = d, !.idx = << >>, !.racy = {}, !.head = 0,
                            !.tail = 0, !.ret = n]
    IN  IF InPull(rec)
        THEN [done EXCEPT !.pc = "consume_head", !.n = n]
        ELSE [done EXCEPT !.pc = "idle", !.result = "ok", !.destLen = 0]

\* The reader when consume (and with it pull) returns n.  Called directly,
\* the operation is over.  Inside PipeReader::read: the first pull notifies
\* the space-available signal if it pulled something, else goes on to look
\* at the closed flag; what the pull after the wait returns is what read
\* returns.
PullReturn(rec, n) ==
    LET done == [rec EXCEPT !.ret = n, !.head = 0, !.n = 0, !.count = 0]
    IN  CASE rec.op = "read" /\ rec.ctx = "first" /\ n > 0 ->
                [done EXCEPT !.pc = "notify_store"]
          [] rec.op = "read" /\ rec.ctx = "first" /\ n = 0 ->
                [done EXCEPT !.pc = "read_closed"]
          [] rec.op = "read" ->
                [done EXCEPT !.pc = "idle", !.result = "ok", !.eof = @ \/ n = 0]
          [] OTHER ->
                [done EXCEPT !.pc = "idle", !.result = "ok", !.destLen = 0]

\* The empty test of copy_to.
CopyToIsEmpty(h, t) == h = t

\* A window that leaves out the slice that wraps to the start of the array.
CopyToWindow_first(h, t) == << as_slices(array, h, t)[1], << >> >>

\* The live window copy_to gathers.
CopyToWindow(h, t) == as_slices(array, h, t)

\* A count that is not clamped to what the buffer holds.
ConsumeCount_all(n, l) == n

\* The number of elements consume discards.
ConsumeCount(n, l) == Min(n, l)

\* let head = self.inner.head.load(SeqCst)
CopyToLoadHead ==
    /\ r.pc = "copy_head"
    /\ r' = [r EXCEPT !.pc = "copy_tail", !.head = head]
    /\ UNCHANGED << pipeVars, ringVars, w, histVars >>

\* let tail = self.inner.tail.load(SeqCst); the empty test; the slices.
\* pull passes the count copy_to returns on to consume.
CopyToLoadTail ==
    /\ r.pc = "copy_tail"
    /\ IF CopyToIsEmpty(r.head, tail)
       THEN r' = CopyToReturn(r, << >>, 0)
       ELSE LET idx == copy_from_seq(CopyToWindow(r.head, tail), r.destLen)
            IN  r' = [r EXCEPT !.tail = tail, !.idx = idx, !.pc = "copy",
                               !.racy = Range(idx) \cap wslots]
    /\ UNCHANGED << pipeVars, ringVars, w, histVars >>

\* arrays::copy_from_seq(&slices, dest)
CopyToCopy ==
    /\ r.pc = "copy"
    /\ \E d \in Load(array, r.idx, r.racy) :
          r' = CopyToReturn(r, d, Len(r.idx))
    /\ UNCHANGED << pipeVars, ringVars, w, histVars >>

\* What the reader takes out of the buffer by advancing head by count: the
\* bytes pull has copied, or the bytes consume discards unseen.
Taken(count) ==
    IF InPull(r) THEN SubSeq(r.dest, 1, count)
    ELSE [i \in 1..count |-> array[internal_index(array, wrapping_add(head, i - 1)) + 1]]

\* self.len(): let head = self.head.load(SeqCst)
ConsumeLoadHead ==
    /\ r.pc = "consume_head"
    /\ r' = [r EXCEPT !.pc = "consume_tail", !.head = head]
    /\ UNCHANGED << pipeVars, ringVars, w, histVars >>

\* self.len(): let tail = self.tail.load(SeqCst); count.min(self.len())
ConsumeLoadTail ==
    /\ r.pc = "consume_tail"
    /\ r' = [r EXCEPT !.pc = "consume_add", !.head = 0,
                      !.count = ConsumeCount(r.n, wrapping_sub(tail, r.head))]
    /\ UNCHANGED << pipeVars, ringVars, w, histVars >>

\* self.inner.head.fetch_add(count, SeqCst); count
ConsumeAdd ==
    /\ r.pc = "consume_add"
    /\ head' = wrapping_add(head, r.count)
    /\ nconsumed' = IF logging THEN nconsumed + r.count ELSE nconsumed
    /\ obtained' = IF logging THEN obtained \o Taken(r.count) ELSE obtained
    /\ r' = PullReturn(r, r.count)
    /\ w' = Fed(w, r')
    /\ UNCHANGED << pipeVars, array, tail, accepted, sideVars >>

(***************************************************************************)
(* The two threads using the ring buffer directly.                         *)
(***************************************************************************)
\* The writer thread calls push(src).
CallPush ==
    /\ w.pc = "idle"
    /\ \E n \in 1..MaxSlice :
          /\ Len(accepted) + n <= MaxTotal
          /\ w' = [w EXCEPT !.pc = "push_head", !.op = "push", !.result = "none",
                            !.src = Stream(Len(accepted), n),
                            !.len0 = IF logging THEN n ELSE 0,
                            !.mark = IF logging THEN << tail, array, head >> ELSE << >>]
    /\ UNCHANGED << pipeVars, ringVars, r, histVars >>

\* The reader thread calls copy_to(dest).  Until the call returns, dest
\* keeps what the call before it returned if that was a copy_to as well.
CallCopyTo ==
    /\ r.pc = "idle"
    /\ nconsumed < MaxTotal
    /\ \E n \in 0..MaxSlice :
          r' = [r EXCEPT !.pc = "copy_head", !.op = "copy_to", !.destLen = n,
                         !.dest = IF r.op = "copy_to" THEN r.dest ELSE << >>,
                         !.result = "none"]
    /\ UNCHANGED << pipeVars, ringVars, w, histVars >>

\* The reader thread calls consume(count).
CallConsume ==
    /\ r.pc = "idle"
    /\ nconsumed < MaxTotal
    /\ \E n \in 0..MaxSlice :
          r' = [r EXCEPT !.pc = "consume_head", !.op = "consume", !.n = n,
                         !.dest = << >>, !.result = "none"]
    /\ UNCHANGED << pipeVars, ringVars, w, histVars >>

\* The reader thread calls pull(dest).
CallPull ==
    /\ r.pc = "idle"
    /\ nconsumed < MaxTotal
    /\ \E n \in 0..MaxSlice :
          r' = [r EXCEPT !.pc = "copy_head", !.op = "pull", !.destLen = n,
                         !.result = "none"]
    /\ UNCHANGED << pipeVars, ringVars, w, histVars >>

PushSteps == PushLoadHead \/ PushLoadTail \/ PushCopy \/ PushPublish

CopyToSteps == CopyToLoadHead \/ CopyToLoadTail \/ CopyToCopy

ConsumeSteps == ConsumeLoadHead \/ ConsumeLoadTail \/ ConsumeAdd

ReadSteps == CopyToSteps \/ ConsumeSteps

vars ==
    << array, head, tail, w, r, accepted, nconsumed, obtained, logging,
       drop_flag, empty_signal, full_signal, builder, chunkedVars, Buffer >>

\* Signal::new
SignalNew == [notified |-> FALSE, waiting |-> 0, lock |-> "free"]

\* mpsc: a channel is the queue of its messages and the open flag of its
\* shared state.
Channel(queue, is_open) == [queue |-> queue, is_open |-> is_open]

\* The two ends of a chunked pipe and the threads that own them.  A thread
\* is a record as above; chunk is Reader.chunk (an Option: a sequence of at
\* most one chunk), local and Writer's chunk are the chunk a running call
\* holds.  History: eof (the read returned through the Ready(None) arm),
\* detached0 and closed0 (the peer was gone when the call began).
ChunkedReaderInit ==
    [pc |-> "idle", op |-> "none", chunk |-> << >>, destLen |-> 0, dest |-> << >>,
     local |-> << >>, ret |-> 0, result |-> "none", eof |-> FALSE,
     detached0 |-> FALSE]

ChunkedWriterInit ==
    [pc |-> "idle", op |-> "none", buf |-> << >>, chunk |-> << >>, ret |-> 0,
     result |-> "none", closed0 |-> FALSE]

\* No growable Buffer has been created.
NoBuffer == [array |-> << >>, head |-> 0, len |-> 0, op |-> "none", ret |-> 0, dest |-> << >>]

\* No chunked pipe has been created.
NoChunked ==
    /\ Buffer = NoBuffer
    /\ chunk_count = 0
    /\ buf_pool = Channel(<< >>, FALSE)
    /\ buf_stream = Channel(<< >>, FALSE)
    /\ reader = ChunkedReaderInit
    /\ writer = ChunkedWriterInit
    /\ written = << >>

\* The state after PipeBuilder::capacity(cap) and bounded(cap), for every
\* capacity of the model.
InitBuffer ==
    /\ \E cap \in 1..MaxCapacity : bounded(cap) /\ builder = [capacity |-> cap]
    /\ NoChunked
    /\ w = WriterInit
    /\ r = ReaderInit
    /\ accepted = << >>
    /\ nconsumed = 0
    /\ obtained = << >>
    /\ drop_flag = FALSE
    /\ empty_signal = SignalNew
    /\ full_signal = SignalNew

InitRing == InitBuffer /\ logging = TRUE

NextRing == CallPush \/ CallCopyTo \/ CallConsume \/ CallPull \/ PushSteps \/ ReadSteps

\* One writer thread and one reader thread calling push, copy_to, consume and pull.
SpecRing == InitRing /\ [][NextRing]_vars

(***************************************************************************)
(* buffers/atomic.rs: Buffer::clear of the two handles.                    *)
(***************************************************************************)
\* Writer::clear: let tail = self.inner.tail.load(SeqCst)
WriterClearLoadTail ==
    /\ w.pc = "clear_tail"
    /\ w' = [w EXCEPT !.pc = "clear_store", !.tail = tail]
    /\ UNCHANGED << pipeVars, ringVars, r, histVars >>

\* Writer::clear: self.inner.head.store(tail, SeqCst)
WriterClearStore ==
    /\ w.pc = "clear_store"
    /\ head' = w.tail
    /\ w' = [w EXCEPT !.pc = "idle", !.tail = 0, !.result = "ok"]
    /\ UNCHANGED << pipeVars, array, tail, r, histVars >>

\* Reader::clear: let tail = self.inner.tail.load(SeqCst)
ReaderClearLoadTail ==
    /\ r.pc = "clear_tail"
    /\ r' = [r EXCEPT !.pc = "clear_store", !.tail = tail]
    /\ UNCHANGED << pipeVars, ringVars, w, histVars >>

\* Reader::clear: self.inner.head.store(tail, SeqCst)
ReaderClearStore ==
    /\ r.pc = "clear_store"
    /\ head' = r.tail
    /\ r' = [r EXCEPT !.pc = "idle", !.tail = 0, !.result = "ok"]
    /\ UNCHANGED << pipeVars, array, tail, w, histVars >>

\* The writer thread calls clear().
CallWriterClear ==
    /\ w.pc = "idle"
    /\ w' = [w EXCEPT !.pc = "clear_tail", !.op = "clear", !.result = "none"]
    /\ UNCHANGED << pipeVars, ringVars, r, histVars >>

\* The reader thread calls clear().
CallReaderClear ==
    /\ r.pc = "idle"
    /\ nconsumed < MaxTotal
    /\ r' = [r EXCEPT !.pc = "clear_tail", !.op = "clear", !.dest = << >>,
                      !.result = "none"]
    /\ UNCHANGED << pipeVars, ringVars, w, histVars >>

ClearSteps ==
    \/ CallWriterClear \/ WriterClearLoadTail \/ WriterClearStore
    \/ CallReaderClear \/ ReaderClearLoadTail \/ ReaderClearStore

\* The operations that move a cursor: push, consume and the two clears.
\* (copy_to moves no cursor, and pull moves head by calling consume.)
NextRingClear == CallPush \/ CallConsume \/ PushSteps \/ ConsumeSteps \/ ClearSteps

\* A clear discards bytes unseen, so the stream the reader takes out is not
\* defined and the histories are not kept.
InitRingClear == InitBuffer /\ logging = FALSE

\* The two threads calling push, consume and clear.
SpecRingClear == InitRingClear /\ [][NextRingClear]_vars

(***************************************************************************)
(* internal/sync.rs: Signal.  The reader waits on empty_signal and         *)
(* notifies full_signal; the writer waits on full_signal and notifies      *)
(* empty_signal.  A thread blocked in Condvar::wait is at "wait_parked";   *)
(* once woken it is at "wait_relock" until it has the mutex again.         *)
(***************************************************************************)
WaitPcs ==
    {"wait_fast", "wait_inc", "wait_lock", "wait_check", "wait_parked",
     "wait_relock", "wait_unlock", "wait_dec"}

\* The thread when notify returns: read and write return Ok(ret), drop is over.
NotifyReturn(rec) ==
    IF rec.op = "drop" THEN [rec EXCEPT !.pc = "dropped"]
    ELSE [rec EXCEPT !.pc = "idle", !.result = "ok"]

\* The thread when wait returns: read pulls again, write pushes again; a
\* wait called on the signal itself is over, and counted.
WaitReturn(rec) ==
    IF rec.op = "wait"
    THEN [rec EXCEPT !.pc = "idle", !.result = "ok", !.waits = @ + 1]
    ELSE [rec EXCEPT !.pc = IF rec.op = "read" THEN "copy_head" ELSE "push_head",
                     !.ctx = "retry"]

\* A notify_one that wakes nobody.
notify_one_none(rec) == rec

\* Condvar::notify_one: a thread blocked in Condvar::wait is woken.
notify_one(rec) ==
    IF rec.pc = "wait_parked" THEN [rec EXCEPT !.pc = "wait_relock"] ELSE rec

\* notify: self.notified.store(true, SeqCst)
ReaderNotifyStore ==
    /\ r.pc = "notify_store"
    /\ full_signal' = [full_signal EXCEPT !.notified = TRUE]
    /\ r' = [r EXCEPT !.pc = "notify_load"]
    /\ UNCHANGED << ringVars, histVars, w, drop_flag, empty_signal >>

\* notify: if self.waiting.load(SeqCst) > 0
ReaderNotifyLoad ==
    /\ r.pc = "notify_load"
    /\ r' = IF full_signal.waiting > 0 THEN [r EXCEPT !.pc = "notify_lock"]
            ELSE NotifyReturn(r)
    /\ w' = Fed(w, r')
    /\ UNCHANGED << ringVars, histVars, pipeVars >>

\* notify: let _guard = self.lock.lock().unwrap()
ReaderNotifyLock ==
    /\ r.pc = "notify_lock"
    /\ full_signal.lock = "free"
    /\ full_signal' = [full_signal EXCEPT !.lock = "r"]
    /\ r' = [r EXCEPT !.pc = "notify_wake"]
    /\ UNCHANGED << ringVars, histVars, w, drop_flag, empty_signal >>

\* notify: self.condvar.notify_one(), and the guard is dropped
ReaderNotifyWake ==
    /\ r.pc = "notify_wake"
    /\ r' = NotifyReturn(r)
    /\ w' = notify_one(Fed(w, r'))
    /\ full_signal' = [full_signal EXCEPT !.lock = "free"]
    /\ UNCHANGED << ringVars, histVars, drop_flag, empty_signal >>

\* History: the reader's wait clears the notified flag, after so many
\* notify calls have set it.
Cleared(rec) == [rec EXCEPT !.cleared = w.notifies]

\* A wait without the fast path.
ReaderWaitFast_slow ==
    /\ r.pc = "wait_fast"
    /\ r' = [r EXCEPT !.pc = "wait_inc"]
    /\ UNCHANGED << ringVars, histVars, w, pipeVars >>

\* wait, fast path: if self.notified.swap(false, SeqCst) { return; }
ReaderWaitFast ==
    /\ r.pc = "wait_fast"
    /\ empty_signal' = [empty_signal EXCEPT !.notified = FALSE]
    /\ r' = IF empty_signal.notified THEN WaitReturn(Cleared(r))
            ELSE [r EXCEPT !.pc = "wait_inc"]
    /\ UNCHANGED << ringVars, histVars, w, drop_flag, full_signal >>

\* wait: self.waiting.fetch_add(1, SeqCst)
ReaderWaitInc ==
    /\ r.pc = "wait_inc"
    /\ empty_signal' = [empty_signal EXCEPT !.waiting = @ + 1]
    /\ r' = [r EXCEPT !.pc = "wait_lock"]
    /\ UNCHANGED << ringVars, histVars, w, drop_flag, full_signal >>

\* wait: let mut guard = self.lock.lock().unwrap()
ReaderWaitLock ==
    /\ r.pc = "wait_lock"
    /\ empty_signal.lock = "free"
    /\ empty_signal' = [empty_signal EXCEPT !.lock = "r"]
    /\ r' = [r EXCEPT !.pc = "wait_check"]
    /\ UNCHANGED << ringVars, histVars, w, drop_flag, full_signal >>

\* A loop that reads the flag with load instead of swap(false).
ReaderWaitCheck_keep ==
    /\ r.pc = "wait_check"
    /\ IF empty_signal.notified
       THEN /\ empty_signal' = empty_signal
            /\ r' = [Cleared(r) EXCEPT !.pc = "wait_unlock"]
       ELSE /\ empty_signal' = [empty_signal EXCEPT !.lock = "free"]
            /\ r' = [r EXCEPT !.pc = "wait_parked", !.parked = TRUE]
    /\ UNCHANGED << ringVars, histVars, w, drop_flag, full_signal >>

\* wait: while !self.notified.swap(false, SeqCst) { guard = self.condvar.wait(guard) }
\* Condvar::wait releases the mutex and blocks the thread in one step.
ReaderWaitCheck ==
    /\ r.pc = "wait_check"
    /\ IF empty_signal.notified
       THEN /\ empty_signal' = [empty_signal EXCEPT !.notified = FALSE]
            /\ r' = [Cleared(r) EXCEPT !.pc = "wait_unlock"]
       ELSE /\ empty_signal' = [empty_signal EXCEPT !.lock = "free"]
            /\ r' = [r EXCEPT !.pc = "wait_parked", !.parked = TRUE]
    /\ UNCHANGED << ringVars, histVars, w, drop_flag, full_signal >>

\* Condvar::wait may wake up without a notify_one.
ReaderSpuriousWake ==
    /\ r.pc = "wait_parked"
    /\ r' = [r EXCEPT !.pc = "wait_relock"]
    /\ UNCHANGED << ringVars, histVars, w, pipeVars >>

\* A wait that does not look at the flag again once woken (if, not while).
ReaderWaitRelock_return ==
    /\ r.pc = "wait_relock"
    /\ empty_signal.lock = "free"
    /\ empty_signal' = [empty_signal EXCEPT !.lock = "r"]
    /\ r' = [r EXCEPT !.pc = "wait_unlock"]
    /\ UNCHANGED << ringVars, histVars, w, drop_flag, full_signal >>

\* Condvar::wait takes the mutex again before it returns
ReaderWaitRelock ==
    /\ r.pc = "wait_relock"
    /\ empty_signal.lock = "free"
    /\ empty_signal' = [empty_signal EXCEPT !.lock = "r"]
    /\ r' = [r EXCEPT !.pc = "wait_check"]
    /\ UNCHANGED << ringVars, histVars, w, drop_flag, full_signal >>

\* wait: drop(guard)
ReaderWaitUnlock ==
    /\ r.pc = "wait_unlock"
    /\ empty_signal' = [empty_signal EXCEPT !.lock = "free"]
    /\ r' = [r EXCEPT !.pc = "wait_dec"]
    /\ UNCHANGED << ringVars, histVars, w, drop_flag, full_signal >>

\* wait: self.waiting.fetch_sub(1, SeqCst)
ReaderWaitDec ==
    /\ r.pc = "wait_dec"
    /\ empty_signal' = [empty_signal EXCEPT !.waiting = @ - 1]
    /\ r' = WaitReturn(r)
    /\ UNCHANGED << ringVars, histVars, w, drop_flag, full_signal >>

\* notify: self.notified.store(true, SeqCst)
WriterNotifyStore ==
    /\ w.pc = "notify_store"
    /\ empty_signal' = [empty_signal EXCEPT !.notified = TRUE]
    /\ w' = [w EXCEPT !.pc = "notify_load",
                      !.notifies = IF w.op = "notify" THEN @ + 1 ELSE @]
    /\ UNCHANGED << ringVars, histVars, r, drop_flag, full_signal >>

\* notify: if self.waiting.load(SeqCst) > 0
WriterNotifyLoad ==
    /\ w.pc = "notify_load"
    /\ w' = IF empty_signal.waiting > 0 THEN [w EXCEPT !.pc = "notify_lock"]
            ELSE NotifyReturn(w)
    /\ r' = Fed(r, w')
    /\ UNCHANGED << ringVars, histVars, pipeVars >>

\* notify: let _guard = self.lock.lock().unwrap()
WriterNotifyLock ==
    /\ w.pc = "notify_lock"
    /\ empty_signal.lock = "free"
    /\ empty_signal' = [empty_signal EXCEPT !.lock = "w"]
    /\ w' = [w EXCEPT !.pc = "notify_wake"]
    /\ UNCHANGED << ringVars, histVars, r, drop_flag, full_signal >>

\* notify: self.condvar.notify_one(), and the guard is dropped
WriterNotifyWake ==
    /\ w.pc = "notify_wake"
    /\ w' = NotifyReturn(w)
    /\ r' = notify_one(Fed(r, w'))
    /\ empty_signal' = [empty_signal EXCEPT !.lock = "free"]
    /\ UNCHANGED << ringVars, histVars, drop_flag, full_signal >>

\* wait, fast path: if self.notified.swap(false, SeqCst) { return; }
WriterWaitFast ==
    /\ w.pc = "wait_fast"
    /\ full_signal' = [full_signal EXCEPT !.notified = FALSE]
    /\ w' = IF full_signal.notified THEN WaitReturn(w) ELSE [w EXCEPT !.pc = "wait_inc"]
    /\ UNCHANGED << ringVars, histVars, r, drop_flag, empty_signal >>

\* wait: self.waiting.fetch_add(1, SeqCst)
WriterWaitInc ==
    /\ w.pc = "wait_inc"
    /\ full_signal' = [full_signal EXCEPT !.waiting = @ + 1]
    /\ w' = [w EXCEPT !.pc = "wait_lock"]
    /\ UNCHANGED << ringVars, histVars, r, drop_flag, empty_signal >>

\* wait: let mut guard = self.lock.lock().unwrap()
WriterWaitLock ==
    /\ w.pc = "wait_lock"
    /\ full_signal.lock = "free"
    /\ full_signal' = [full_signal EXCEPT !.lock = "w"]
    /\ w' = [w EXCEPT !.pc = "wait_check"]
    /\ UNCHANGED << ringVars, histVars, r, drop_flag, empty_signal >>

\* wait: while !self.notified.swap(false, SeqCst) { guard = self.condvar.wait(guard) }
\* Condvar::wait releases the mutex and blocks the thread in one step.
WriterWaitCheck ==
    /\ w.pc = "wait_check"
    /\ IF full_signal.notified
       THEN /\ full_signal' = [full_signal EXCEPT !.notified = FALSE]
            /\ w' = [w EXCEPT !.pc = "wait_unlock"]
       ELSE /\ full_signal' = [full_signal EXCEPT !.lock = "free"]
            /\ w' = [w EXCEPT !.pc = "wait_parked", !.parked = TRUE]
    /\ UNCHANGED << ringVars, histVars, r, drop_flag, empty_signal >>

\* Condvar::wait may wake up without a notify_one.
WriterSpuriousWake ==
    /\ w.pc = "wait_parked"
    /\ w' = [w EXCEPT !.pc = "wait_relock"]
    /\ UNCHANGED << ringVars, histVars, r, pipeVars >>

\* Condvar::wait takes the mutex again before it returns
WriterWaitRelock ==
    /\ w.pc = "wait_relock"
    /\ full_signal.lock = "free"
    /\ full_signal' = [full_signal EXCEPT !.lock = "w"]
    /\ w' = [w EXCEPT !.pc = "wait_check"]
    /\ UNCHANGED << ringVars, histVars, r, drop_flag, empty_signal >>

\* wait: drop(guard)
WriterWaitUnlock ==
    /\ w.pc = "wait_unlock"
    /\ full_signal' = [full_signal EXCEPT !.lock = "free"]
    /\ w' = [w EXCEPT !.pc = "wait_dec"]
    /\ UNCHANGED << ringVars, histVars, r, drop_flag, empty_signal >>

\* wait: self.waiting.fetch_sub(1, SeqCst)
WriterWaitDec ==
    /\ w.pc = "wait_dec"
    /\ full_signal' = [full_signal EXCEPT !.waiting = @ - 1]
    /\ w' = WaitReturn(w)
    /\ UNCHANGED << ringVars, histVars, r, drop_flag, empty_signal >>

(***************************************************************************)
(* io.rs: PipeReader.                                                      *)
(***************************************************************************)
\* read(buf) with a non-empty buf: let len = self.buffer.pull(buf)
CallRead ==
    /\ r.pc = "idle"
    /\ r.op # "drop"
    /\ \E n \in 1..MaxSlice :
          r' = [r EXCEPT !.pc = "copy_head", !.op = "read", !.ctx = "first",
                         !.destLen = n, !.dest = << >>, !.ret = 0, !.result = "none",
                         !.parked = FALSE, !.fed = FALSE, !.closed0 = drop_flag,
                         !.mark = << head >>]
    /\ UNCHANGED << ringVars, histVars, w, pipeVars >>

\* read(buf) with an empty buf: if buf.is_empty() { return Ok(0); }
CallReadEmpty ==
    /\ r.pc = "idle"
    /\ r.op # "drop"
    /\ ~(r.op = "read" /\ r.destLen = 0)
    /\ r' = [r EXCEPT !.op = "read", !.ctx = "first", !.destLen = 0, !.dest = << >>,
                      !.ret = 0, !.result = "ok", !.parked = FALSE, !.fed = FALSE,
                      !.closed0 = drop_flag, !.mark = << head >>]
    /\ UNCHANGED << ringVars, histVars, w, pipeVars >>

\* A read that looks at the non-blocking flag but not at the closed flag.
ReadClosed_unchecked ==
    /\ r.pc = "read_closed"
    /\ r' = IF r.nonblocking THEN [r EXCEPT !.pc = "idle", !.result = "would_block"]
            ELSE [r EXCEPT !.pc = "wait_fast"]
    /\ UNCHANGED << ringVars, histVars, w, pipeVars >>

\* The pipe is empty: if self.drop_flag.load(SeqCst) { return Ok(0); }
\* if self.flags & FLAG_NONBLOCKING != 0 { return Err(WouldBlock) }
\* self.empty_signal.wait()
ReadClosed ==
    /\ r.pc = "read_closed"
    /\ r' = IF drop_flag THEN [r EXCEPT !.pc = "idle", !.result = "ok", !.eof = TRUE]
            ELSE IF r.nonblocking THEN [r EXCEPT !.pc = "idle", !.result = "would_block"]
            ELSE [r EXCEPT !.pc = "wait_fast"]
    /\ UNCHANGED << ringVars, histVars, w, pipeVars >>

\* PipeReader::set_nonblocking
ReaderSetNonblocking ==
    /\ r.pc = "idle"
    /\ r.op # "drop"
    /\ r' = [r EXCEPT !.nonblocking = ~@, !.op = "set_nonblocking", !.result = "ok"]
    /\ UNCHANGED << ringVars, histVars, w, pipeVars >>

\* The reader end is dropped.
CallDropReader ==
    /\ r.pc = "idle"
    /\ r.op # "drop"
    /\ r' = [r EXCEPT !.pc = "drop_store", !.op = "drop", !.result = "none"]
    /\ UNCHANGED << ringVars, histVars, w, pipeVars >>

\* Drop for PipeReader: self.drop_flag.store(true, SeqCst); then
\* self.full_signal.notify()
ReaderDropStore ==
    /\ r.pc = "drop_store"
    /\ drop_flag' = TRUE
    /\ r' = [r EXCEPT !.pc = "notify_store"]
    /\ w' = Orphaned(w)
    /\ UNCHANGED << ringVars, histVars, empty_signal, full_signal >>

(***************************************************************************)
(* io.rs: PipeWriter.                                                      *)
(***************************************************************************)
\* write(buf) with a non-empty buf
CallWrite ==
    /\ w.pc = "idle"
    /\ w.op # "drop"
    /\ \E n \in 1..MaxSlice :
          /\ Len(accepted) + n <= MaxPipeTotal
          /\ w' = [w EXCEPT !.pc = "write_closed", !.op = "write", !.ctx = "first",
                            !.src = Stream(Len(accepted), n), !.len0 = n, !.ret = 0,
                            !.result = "none", !.parked = FALSE, !.fed = FALSE,
                            !.closed0 = drop_flag, !.mark = << tail, array >>]
    /\ UNCHANGED << ringVars, histVars, r, pipeVars >>

\* write(buf) with an empty buf: if buf.is_empty() { return Ok(0); }
CallWriteEmpty ==
    /\ w.pc = "idle"
    /\ w.op # "drop"
    /\ ~(w.op = "write" /\ w.len0 = 0)
    /\ w' = [w EXCEPT !.op = "write", !.ctx = "first", !.len0 = 0, !.ret = 0,
                      !.result = "ok", !.parked = FALSE, !.fed = FALSE,
                      !.closed0 = drop_flag, !.mark = << tail, array >>]
    /\ UNCHANGED << ringVars, histVars, r, pipeVars >>

\* A write without the early check for a closed pipe.
WriteClosed_unchecked ==
    /\ w.pc = "write_closed"
    /\ w' = [w EXCEPT !.pc = "push_head"]
    /\ UNCHANGED << ringVars, histVars, r, pipeVars >>

\* if self.drop_flag.load(SeqCst) { return Err(BrokenPipe) }
\* let len = self.buffer.push(buf)
WriteClosed ==
    /\ w.pc = "write_closed"
    /\ w' = IF drop_flag
            THEN [w EXCEPT !.pc = "idle", !.result = "broken_pipe", !.src = << >>]
            ELSE [w EXCEPT !.pc = "push_head"]
    /\ UNCHANGED << ringVars, histVars, r, pipeVars >>

\* PipeWriter::set_nonblocking
WriterSetNonblocking ==
    /\ w.pc = "idle"
    /\ w.op # "drop"
    /\ w' = [w EXCEPT !.nonblocking = ~@, !.op = "set_nonblocking", !.result = "ok"]
    /\ UNCHANGED << ringVars, histVars, r, pipeVars >>

\* The writer end is dropped.
CallDropWriter ==
    /\ w.pc = "idle"
    /\ w.op # "drop"
    /\ w' = [w EXCEPT !.pc = "drop_store", !.op = "drop", !.result = "none"]
    /\ UNCHANGED << ringVars, histVars, r, pipeVars >>

\* Drop for PipeWriter: self.drop_flag.store(true, SeqCst); then
\* self.empty_signal.notify()
WriterDropStore ==
    /\ w.pc = "drop_store"
    /\ drop_flag' = TRUE
    /\ w' = [w EXCEPT !.pc = "notify_store"]
    /\ r' = Orphaned(r)
    /\ UNCHANGED << ringVars, histVars, empty_signal, full_signal >>

(***************************************************************************)
(* The pipe: one thread owns the PipeReader, another the PipeWriter.       *)
(***************************************************************************)
ReaderNotifySteps ==
    ReaderNotifyStore \/ ReaderNotifyLoad \/ ReaderNotifyLock \/ ReaderNotifyWake

ReaderWaitSteps ==
    \/ ReaderWaitFast \/ ReaderWaitInc \/ ReaderWaitLock \/ ReaderWaitCheck
    \/ ReaderWaitRelock \/ ReaderWaitUnlock \/ ReaderWaitDec

WriterNotifySteps ==
    WriterNotifyStore \/ WriterNotifyLoad \/ WriterNotifyLock \/ WriterNotifyWake

WriterWaitSteps ==
    \/ WriterWaitFast \/ WriterWaitInc \/ WriterWaitLock \/ WriterWaitCheck
    \/ WriterWaitRelock \/ WriterWaitUnlock \/ WriterWaitDec

\* The steps the reader thread takes inside read, and inside read and drop.
ReaderReadSteps == ReadSteps \/ ReadClosed \/ ReaderNotifySteps \/ ReaderWaitSteps

ReaderRun == ReaderReadSteps \/ ReaderDropStore

\* The steps the writer thread takes inside write, and inside write and drop.
WriterWriteSteps == PushSteps \/ WriteClosed \/ WriterNotifySteps \/ WriterWaitSteps

WriterRun == WriterWriteSteps \/ WriterDropStore

\* PipeBuilder::build, in blocking mode
InitPipe == InitBuffer /\ logging = TRUE

NextPipe ==
    \/ CallRead \/ CallReadEmpty \/ ReaderSetNonblocking \/ CallDropReader \/ ReaderRun
    \/ CallWrite \/ CallWriteEmpty \/ WriterSetNonblocking \/ CallDropWriter \/ WriterRun
    \/ ReaderSpuriousWake \/ WriterSpuriousWake

\* Any use of the two ends of a pipe by one reader and one writer thread.
SpecPipe == InitPipe /\ [][NextPipe]_vars

\* Both ends stay alive and in blocking mode.  A thread inside a call keeps
\* running; nothing makes a thread call again, and nothing makes a
\* condition variable wake up spuriously.
NextAlive ==
    \/ CallRead \/ ReaderReadSteps \/ ReaderSpuriousWake
    \/ CallWrite \/ WriterWriteSteps \/ WriterSpuriousWake

SpecAlive ==
    InitPipe /\ [][NextAlive]_vars /\ WF_vars(ReaderReadSteps) /\ WF_vars(WriterWriteSteps)

\* benches/pipes.rs: the writer thread writes Data by calling write on the
\* remainder until nothing remains and then drops the writer; the reader
\* thread calls read until a read returns 0.
Data == Stream(0, MaxPipeTotal)

\* A read has returned Ok(0): the reader thread stops reading.
ReaderDone == r.pc = "idle" /\ r.op = "read" /\ r.result = "ok" /\ r.ret = 0

\* write(&data[written..])
CallWriteRest ==
    /\ w.pc = "idle"
    /\ w.op # "drop"
    /\ Len(accepted) < Len(Data)
    /\ LET n == Len(Data) - Len(accepted)
       IN  w' = [w EXCEPT !.pc = "write_closed", !.op = "write", !.ctx = "first",
                          !.src = Stream(Len(accepted), n), !.len0 = n, !.ret = 0,
                          !.result = "none", !.parked = FALSE, !.fed = FALSE,
                          !.closed0 = drop_flag, !.mark = << tail, array >>]
    /\ UNCHANGED << ringVars, histVars, r, pipeVars >>

\* The writer thread ends, which drops the writer.
DropAfterData == Len(accepted) = Len(Data) /\ CallDropWriter

\* The reader thread reads on until a read has returned 0.
CallReadMore == ~ReaderDone /\ CallRead

ReaderThread == CallReadMore \/ ReaderReadSteps

WriterThread == CallWriteRest \/ DropAfterData \/ WriterRun

NextTransfer == ReaderThread \/ WriterThread \/ ReaderSpuriousWake \/ WriterSpuriousWake

SpecTransfer ==
    InitPipe /\ [][NextTransfer]_vars /\ WF_vars(ReaderThread) /\ WF_vars(WriterThread)

(***************************************************************************)
(* C1: the atomic ring buffer is FIFO.  Under every interleaving of one    *)
(* writer calling push and one reader calling copy_to, consume and pull,   *)
(* the bytes that leave the buffer are, in order, a prefix of the bytes    *)
(* push accepted, and every copy_to (alone or inside pull) returns exactly *)
(* the oldest bytes not yet consumed, in order: nothing is lost,           *)
(* duplicated, reordered or corrupted, also when the live window crosses   *)
(* the end of the array and when a cursor wraps.                           *)
(***************************************************************************)
\* The reader holds the result of a copy_to: copy_to has returned, or pull
\* is between its copy_to and the end of its consume.
HoldsCopy ==
    \/ r.op = "copy_to" /\ r.pc = "idle"
    \/ InPull(r) /\ r.pc \in {"consume_head", "consume_tail", "consume_add"}

C1_Fifo ==
    /\ IsPrefix(obtained, accepted)
    /\ HoldsCopy => r.dest = SubSeq(accepted, nconsumed + 1, nconsumed + Len(r.dest))

\* A pull has returned two bytes that straddle the physical end of the
\* array, after the window has gone round the array more than twice.
C1_Witness ==
    /\ r.op = "pull" /\ r.pc = "idle" /\ r.ret = 2
    /\ capacity >= 2
    /\ nconsumed > 2 * capacity
    /\ (nconsumed - 2) % capacity = capacity - 1
    /\ r.dest = << nconsumed - 1, nconsumed >>

(***************************************************************************)
(* C2: capacity bound.  In every state reachable by push on the Writer,    *)
(* copy_to, consume and pull on the Reader and clear on either handle, the *)
(* live count len() = tail - head (wrapping) is at most capacity().        *)
(***************************************************************************)
C2_CapacityBound == len <= capacity

(***************************************************************************)
(* The blocking pipe.                                                      *)
(***************************************************************************)
\* A read, or a write, has returned and nothing was called since.
ReadReturned == r.pc = "idle" /\ r.op = "read"

WriteReturned == w.pc = "idle" /\ w.op = "write"

\* The writer end has been dropped: its drop has set the closed flag.
WriterDropped == w.op = "drop" /\ w.pc # "drop_store"

(***************************************************************************)
(* C3: end-to-end delivery.  With the writer thread writing Data and then  *)
(* dropping the writer, and the reader thread reading until a read returns *)
(* 0, the reader ends having received exactly Data, in order.              *)
(***************************************************************************)
C3_Delivered == ReaderDone => obtained = Data

(***************************************************************************)
(* C4: end-of-stream is sound.  A read called with a non-empty buffer      *)
(* returns Ok(0) only if, at the moment it returns, the ring buffer is     *)
(* empty and the writer end has been dropped.                              *)
(***************************************************************************)
\* The step by which a read of a non-empty buffer returns Ok(0).
ReadReturnsZero ==
    /\ r.op = "read" /\ r.pc # "idle"
    /\ r'.pc = "idle" /\ r'.result = "ok" /\ r'.ret = 0

C4_EofSound == [][ReadReturnsZero => (len' = 0 /\ WriterDropped')]_vars

(***************************************************************************)
(* C5: a blocking-mode write called with a non-empty buffer returns either *)
(* Ok(n) with 1 <= n <= len(buf) or a broken-pipe error; it never returns  *)
(* Ok(0).                                                                  *)
(***************************************************************************)
C5_BlockingWrite ==
    (WriteReturned /\ w.len0 > 0 /\ ~w.nonblocking) =>
        \/ w.result = "ok" /\ 1 <= w.ret /\ w.ret <= w.len0
        \/ w.result = "broken_pipe"

(***************************************************************************)
(* C6: a write of a non-empty buffer that starts after the reader end has  *)
(* been dropped fails with BrokenPipe and pushes nothing: it never reaches *)
(* push, and tail and the array are as they were when it began, whatever   *)
(* the free space and the mode.                                            *)
(***************************************************************************)
C6_WriteAfterClose ==
    (w.op = "write" /\ w.len0 > 0 /\ w.closed0) =>
        /\ w.pc \in {"write_closed", "idle"}
        /\ w.pc = "idle" => w.result = "broken_pipe"
        /\ tail = w.mark[1]
        /\ array = w.mark[2]

\* A blocking write has failed with BrokenPipe although the buffer had room.
C6_Witness ==
    /\ WriteReturned /\ w.len0 > 0 /\ w.closed0 /\ ~w.nonblocking
    /\ w.result = "broken_pipe"
    /\ len < capacity

(***************************************************************************)
(* C7: half-close.  A read that starts after the writer end has been       *)
(* dropped never waits and never fails: it returns the oldest bytes still  *)
(* buffered, as many as fit, in order, and Ok(0) once the buffer is empty. *)
(***************************************************************************)
C7_ReadAfterClose ==
    (r.op = "read" /\ r.closed0) =>
        /\ r.pc \notin WaitPcs
        /\ r.pc = "idle" =>
              /\ r.result = "ok"
              /\ r.ret = Min(r.destLen, Len(accepted) - (nconsumed - r.ret))
              /\ r.dest = SubSeq(accepted, nconsumed - r.ret + 1, nconsumed)

\* A read that began after the drop has returned the last buffered bytes.
C7_Witness ==
    /\ ReadReturned /\ r.closed0 /\ r.result = "ok"
    /\ r.ret = 2 /\ r.dest = << nconsumed - 1, nconsumed >>
    /\ nconsumed = Len(accepted)

(***************************************************************************)
(* C8: non-blocking mode never parks.  With the non-blocking flag set, a   *)
(* read or write is never inside Signal::wait; a read that finds the pipe  *)
(* empty and the writer alive returns WouldBlock, and a write that finds   *)
(* the pipe full returns WouldBlock, both with the cursors and the array   *)
(* as they were when the call began.                                       *)
(***************************************************************************)
NeverParks ==
    /\ (r.op = "read" /\ r.nonblocking) => r.pc \notin WaitPcs
    /\ (w.op = "write" /\ w.nonblocking) => w.pc \notin WaitPcs

\* The step of a non-blocking read after its pull has returned 0, with the
\* closed flag clear.
ReadFindsEmpty ==
    r.pc = "read_closed" /\ r'.pc # "read_closed" /\ r.nonblocking /\ ~drop_flag

\* The step of a non-blocking write in which push finds the buffer full.
WriteFindsFull ==
    /\ w.op = "write" /\ w.nonblocking
    /\ w.pc = "push_tail" /\ w'.pc # "push_tail"
    /\ wrapping_sub(tail, w.head) = capacity

C8_NonblockingNeverParks ==
    [][/\ NeverParks'
       /\ ReadFindsEmpty =>
             /\ r'.pc = "idle" /\ r'.result = "would_block"
             /\ head' = r.mark[1] /\ array' = array
       /\ WriteFindsFull =>
             /\ w'.pc = "idle" /\ w'.result = "would_block"
             /\ tail' = w.mark[1] /\ array' = w.mark[2]]_vars

\* Both ends have been refused: the read on the empty pipe, then the write
\* on the pipe filled since.
C8_Witness ==
    /\ ReadReturned /\ r.nonblocking /\ r.result = "would_block"
    /\ WriteReturned /\ w.nonblocking /\ w.result = "would_block"
    /\ len = capacity
    /\ ~drop_flag

(***************************************************************************)
(* C9: drop wakes a blocked peer.  If one end is blocked inside a blocking *)
(* read or write and the other end is then dropped, the blocked call       *)
(* returns: a blocked reader returns end-of-stream or data, a blocked      *)
(* writer observes the closure (or returns the n >= 1 bytes it pushed).    *)
(***************************************************************************)
C9_DropWakesPeer ==
    /\ (ReadReturned /\ r.parked /\ r.orphaned) => r.result = "ok"
    /\ (WriteReturned /\ w.parked /\ w.orphaned) =>
          \/ w.result = "broken_pipe"
          \/ w.result = "ok" /\ w.ret >= 1

(***************************************************************************)
(* C10: blocking progress, both ends alive.  A blocking read parked on an  *)
(* empty pipe returns at least one byte after the writer has completed a   *)
(* successful write, and a blocking write parked on a full pipe returns    *)
(* having written at least one byte after the reader has completed a       *)
(* successful read.                                                        *)
(***************************************************************************)
C10_BlockingProgress ==
    /\ (r.op = "read" /\ r.pc # "idle" /\ r.fed)
          ~> (ReadReturned /\ r.result = "ok" /\ r.ret >= 1)
    /\ (w.op = "write" /\ w.pc # "idle" /\ w.fed)
          ~> (WriteReturned /\ w.result = "ok" /\ w.ret >= 1)

(***************************************************************************)
(* C11: push is a partial write of exactly the free space.  With no        *)
(* consume between its call and its return, push(src) returns              *)
(* min(len(src), capacity - len), advances tail by that amount and stores  *)
(* the first that-many bytes of src at the slots that follow the old tail; *)
(* when the buffer is full it returns 0 and changes neither tail nor the   *)
(* array.                                                                  *)
(***************************************************************************)
\* The step by which a push called on the buffer returns.
PushReturns == w.op = "push" /\ w.pc # "idle" /\ w'.pc = "idle"

\* The free space when the running push was called.
FreeAtCall == capacity - wrapping_sub(w.mark[1], w.mark[3])

C11_PushPartialWrite ==
    [][(PushReturns /\ head' = w.mark[3]) =>
          LET n == Min(w.len0, FreeAtCall)
          IN  /\ w'.result = "ok"
              /\ w'.ret = n
              /\ tail' = wrapping_add(w.mark[1], n)
              /\ \A i \in 1..n :
                    array'[internal_index(array, w.mark[1] + i - 1) + 1] = w.src[i]
              /\ n = 0 => array' = w.mark[2]]_vars

\* A push of two bytes has stored one, across the end of the array, and
\* filled the buffer.
C11_Witness ==
    /\ w.op = "push" /\ w.pc = "idle" /\ w.result = "ok"
    /\ w.len0 = 2 /\ w.ret = 1
    /\ w.mark = << TRUE >>
    /\ len = capacity /\ capacity >= 2
    /\ internal_index(array, tail) = 0

(***************************************************************************)
(* C19: PipeBuilder::capacity(c) sets the maximum capacity.  The buffer    *)
(* that build obtains from bounded(c) never holds more than c unread       *)
(* bytes, for every c >= 1, a power of two or not.                         *)
(***************************************************************************)
C19_CapacityIsMaximum == len <= builder.capacity

(***************************************************************************)
(* C20: Reader::copy_to is a pure peek.  No step of copy_to changes head,  *)
(* tail or the array; it returns min(len(dest), len()) and dest holds that *)
(* many of the oldest live bytes, in order; a copy_to that follows a       *)
(* copy_to with no consume in between returns the same leading bytes.      *)
(***************************************************************************)
\* A step of a copy_to called on the buffer, and the step by which it returns.
CopyToStep == r.op = "copy_to" /\ r.pc # "idle" /\ r'.pc # r.pc

CopyToReturns == CopyToStep /\ r'.pc = "idle"

\* len() as copy_to has read it: head, and the tail it loaded.
LenSeen == wrapping_sub(IF r.pc = "copy" THEN r.tail ELSE tail, head)

\* The first k elements of two sequences are the same.
SameLeading(s, t, k) == SubSeq(s, 1, k) = SubSeq(t, 1, k)

C20_CopyToIsPeek ==
    [][/\ CopyToStep => UNCHANGED << head, tail, array, nconsumed >>
       /\ CopyToReturns =>
             /\ r'.result = "ok"
             /\ r'.ret = Min(r.destLen, LenSeen)
             /\ r'.dest = SubSeq(accepted, nconsumed + 1, nconsumed + r'.ret)
             /\ SameLeading(r.dest, r'.dest, Min(Len(r.dest), r'.ret))]_vars

\* A copy_to has returned two live bytes that lie across the end of the
\* array, and the buffer still holds them.
C20_Witness ==
    /\ r.op = "copy_to" /\ r.pc = "idle" /\ r.result = "ok"
    /\ r.ret = 2 /\ r.dest = << nconsumed + 1, nconsumed + 2 >>
    /\ capacity >= 2 /\ internal_index(array, head) = capacity - 1
    /\ len >= 2

(***************************************************************************)
(* pipe/chunked.rs.  A chunk is a Cursor<Vec<u8>>: the vector and the read *)
(* position.  The two mpsc channels are modelled by what the pipe uses of  *)
(* them: a queue, and the open flag that a dropped receiver, a dropped     *)
(* last sender and Sender::close_channel clear.                            *)
(***************************************************************************)
\* A new chunk whose read cursor is not at the start.
EmptyChunk_stale == [vec |-> << >>, position |-> 1]

\* Cursor::new(Vec::new())
EmptyChunk == [vec |-> << >>, position |-> 0]

\* Sender::is_closed
is_closed_never(ch) == FALSE

is_closed(ch) == ~ch.is_open

\* Receiver::poll_next: the next message, None once the channel is closed
\* and empty, Pending otherwise.
poll_next(ch) ==
    IF ch.queue # << >> THEN [poll |-> "some", msg |-> Head(ch.queue)]
    ELSE IF ch.is_open THEN [poll |-> "pending", msg |-> EmptyChunk]
    ELSE [poll |-> "none", msg |-> EmptyChunk]

\* Sender::try_send on a channel created by mpsc::channel(buffer) with one
\* sender: Err(full) when the messages queued already exceed the buffer,
\* Err(disconnected) when the channel is closed.
try_send(ch, buffer) ==
    IF Len(ch.queue) > buffer THEN "full"
    ELSE IF ~ch.is_open THEN "disconnected"
    ELSE "ok"

\* The channel after a message was taken, was sent, after close_channel or
\* the drop of the last sender, and after the drop of the receiver.
\* A receive that leaves the message in the channel.
Received_kept(ch) == ch

Received(ch) == [ch EXCEPT !.queue = Tail(@)]

\* A send that queues the message twice.
Sent_twice(ch, msg) == [ch EXCEPT !.queue = Append(Append(@, msg), msg)]

Sent(ch, msg) == [ch EXCEPT !.queue = Append(@, msg)]

Closed(ch) == [ch EXCEPT !.is_open = FALSE]

ReceiverDropped(ch) == Channel(<< >>, FALSE)

\* new: for _ in 0..count { buf_pool_tx.try_send(Cursor::new(Vec::new())) }
FillPool_extra(n) == [i \in 1..(n + 1) |-> EmptyChunk]

FillPool(n) == [i \in 1..n |-> EmptyChunk]

\* chunked::new(count)
new(n) ==
    /\ chunk_count = n
    /\ buf_pool = Channel(FillPool(n), TRUE)
    /\ buf_stream = Channel(<< >>, TRUE)
    /\ reader = ChunkedReaderInit
    /\ writer = ChunkedWriterInit

\* The writer has detached: poll_close has closed the stream channel, or
\* the drop of the Writer has dropped its sender.
WriterDetached == ~buf_stream.is_open /\ reader.op # "drop"

\* The Reader has been dropped.
ReaderGone == reader.op = "drop" /\ reader.pc = "idle"

\* What the rest of the model leaves alone in a step of the chunked pipe.
blockingVars ==
    << ringVars, w, r, pipeVars, nconsumed, logging, builder, chunk_count, Buffer >>

(***************************************************************************)
(* pipe/chunked.rs: Writer.                                                *)
(***************************************************************************)
\* poll_write returns.
WriteReturn(rec, res, n) ==
    [rec EXCEPT !.pc = "idle", !.result = res, !.ret = n, !.chunk = << >>]

\* poll_write(cx, buf)
PollWriteCall ==
    /\ chunk_count > 0
    /\ writer.pc = "idle" /\ writer.op # "drop" /\ writer.result # "panic"
    /\ Len(written) < MaxWrites
    /\ \E n \in 0..MaxSlice :
          /\ Len(accepted) + n <= MaxTotal
          /\ writer' = [writer EXCEPT !.pc = "is_closed", !.op = "poll_write",
                                      !.buf = Stream(Len(accepted), n),
                                      !.result = "none", !.ret = 0,
                                      !.closed0 = ReaderGone]
    /\ UNCHANGED << blockingVars, buf_pool, buf_stream, reader, accepted, obtained, written >>

\* A poll_write that does not look at the stream channel first.
PollWriteIsClosed_skip ==
    /\ writer.pc = "is_closed"
    /\ writer' = [writer EXCEPT !.pc = "poll_next"]
    /\ UNCHANGED << blockingVars, buf_pool, buf_stream, reader, accepted, obtained, written >>

\* if self.buf_stream_tx.is_closed() { return Ready(Err(BrokenPipe)) }
PollWriteIsClosed ==
    /\ writer.pc = "is_closed"
    /\ writer' = IF is_closed(buf_stream)
                 THEN WriteReturn(writer, "broken_pipe", 0)
                 ELSE [writer EXCEPT !.pc = "poll_next"]
    /\ UNCHANGED << blockingVars, buf_pool, buf_stream, reader, accepted, obtained, written >>

\* match self.buf_pool_rx.poll_next(cx); chunk.get_mut().extend_from_slice(buf)
PollWritePollNext ==
    /\ writer.pc = "poll_next"
    /\ LET next == poll_next(buf_pool)
       IN  CASE next.poll = "pending" ->
                   /\ writer' = WriteReturn(writer, "pending", 0)
                   /\ UNCHANGED buf_pool
             [] next.poll = "none" ->
                   /\ writer' = WriteReturn(writer, "broken_pipe", 0)
                   /\ UNCHANGED buf_pool
             [] next.poll = "some" ->
                   /\ buf_pool' = Received(buf_pool)
                   /\ writer' = [writer EXCEPT
                          !.pc = "try_send",
                          !.chunk = << [next.msg EXCEPT !.vec = @ \o writer.buf] >>]
    /\ UNCHANGED << blockingVars, buf_stream, reader, accepted, obtained, written >>

\* match self.buf_stream_tx.try_send(chunk)
PollWriteTrySend ==
    /\ writer.pc = "try_send"
    /\ LET res == try_send(buf_stream, chunk_count)
       IN  CASE res = "ok" ->
                   /\ buf_stream' = Sent(buf_stream, writer.chunk[1])
                   /\ writer' = WriteReturn(writer, "ok", Len(writer.buf))
                   /\ accepted' = accepted \o writer.buf
                   /\ written' = Append(written, writer.buf)
             [] res = "full" ->
                   /\ writer' = WriteReturn(writer, "panic", 0)
                   /\ UNCHANGED << buf_stream, accepted, written >>
             [] OTHER ->
                   /\ writer' = WriteReturn(writer, "broken_pipe", 0)
                   /\ UNCHANGED << buf_stream, accepted, written >>
    /\ UNCHANGED << blockingVars, buf_pool, reader, obtained >>

\* poll_close: self.buf_stream_tx.close_channel()
PollClose ==
    /\ chunk_count > 0
    /\ writer.pc = "idle" /\ writer.op \notin {"drop", "poll_close"}
    /\ writer.result # "panic"
    /\ buf_stream' = Closed(buf_stream)
    /\ writer' = [writer EXCEPT !.op = "poll_close", !.result = "ok", !.ret = 0]
    /\ UNCHANGED << blockingVars, buf_pool, reader, accepted, obtained, written >>

\* The Writer is dropped: its fields are dropped in declaration order.
WriterDropCall ==
    /\ chunk_count > 0
    /\ writer.pc = "idle" /\ writer.op # "drop"
    /\ writer' = [writer EXCEPT !.pc = "drop_pool_rx", !.op = "drop"]
    /\ UNCHANGED << blockingVars, buf_pool, buf_stream, reader, accepted, obtained, written >>

\* drop(buf_pool_rx): the receiver closes the pool channel and drains it.
WriterDropPoolRx ==
    /\ writer.pc = "drop_pool_rx"
    /\ buf_pool' = ReceiverDropped(buf_pool)
    /\ writer' = [writer EXCEPT !.pc = "drop_stream_tx"]
    /\ UNCHANGED << blockingVars, buf_stream, reader, accepted, obtained, written >>

\* drop(buf_stream_tx): the last sender closes the stream channel.
WriterDropStreamTx ==
    /\ writer.pc = "drop_stream_tx"
    /\ buf_stream' = Closed(buf_stream)
    /\ writer' = [writer EXCEPT !.pc = "idle"]
    /\ UNCHANGED << blockingVars, buf_pool, reader, accepted, obtained, written >>

(***************************************************************************)
(* pipe/chunked.rs: Reader.                                                *)
(***************************************************************************)
\* chunk.set_position(0); chunk.get_mut().clear() -- left out
Recycle_dirty(chunk) == [chunk EXCEPT !.position = 0]

\* chunk.set_position(0); chunk.get_mut().clear()
Recycle(chunk) == EmptyChunk

\* Cursor::poll_read: the number of bytes read into a buffer of length n.
CursorRead(chunk, n) == Min(n, Len(chunk.vec) - chunk.position)

\* poll_read returns.
ReadReturn(rec, res, n) ==
    [rec EXCEPT !.pc = "idle", !.result = res, !.ret = n, !.local = << >>]

\* A read that returns the chunk to the writer whatever is left in it.
DoRead_skip(rec, chunk) ==
    LET n    == CursorRead(chunk, rec.destLen)
        d    == SubSeq(chunk.vec, chunk.position + 1, chunk.position + n)
        rest == [chunk EXCEPT !.position = @ + n]
        got  == [rec EXCEPT !.dest = d, !.ret = n]
    IN  [got EXCEPT !.pc = "try_send", !.chunk = << >>, !.local = << Recycle(rest) >>]

\* The read of the chunk and what follows it: keep the chunk for a future
\* read, or go on to return it to the writer.
DoRead(rec, chunk) ==
    LET n    == CursorRead(chunk, rec.destLen)
        d    == SubSeq(chunk.vec, chunk.position + 1, chunk.position + n)
        rest == [chunk EXCEPT !.position = @ + n]
        got  == [rec EXCEPT !.dest = d, !.ret = n]
    IN  IF rest.position < Len(rest.vec)
        THEN [ReadReturn(got, "ok", n) EXCEPT !.chunk = << rest >>]
        ELSE [got EXCEPT !.pc = "try_send", !.chunk = << >>,
                         !.local = << Recycle(rest) >>]

\* poll_read(cx, buf)
PollReadCall ==
    /\ chunk_count > 0
    /\ reader.pc = "idle" /\ reader.op # "drop" /\ reader.result # "panic"
    /\ \E n \in 0..MaxSlice :
          reader' = [reader EXCEPT !.pc = "take", !.op = "poll_read", !.destLen = n,
                                   !.dest = << >>, !.result = "none", !.ret = 0,
                                   !.eof = FALSE, !.detached0 = WriterDetached]
    /\ UNCHANGED << blockingVars, buf_pool, buf_stream, writer, accepted, obtained, written >>

\* self.chunk.take(), or self.buf_stream_rx.poll_next(cx); the read
PollReadTake ==
    /\ reader.pc = "take"
    /\ IF reader.chunk # << >>
       THEN /\ reader' = DoRead(reader, reader.chunk[1])
            /\ UNCHANGED buf_stream
       ELSE LET next == poll_next(buf_stream)
            IN  CASE next.poll = "pending" ->
                        /\ reader' = ReadReturn(reader, "pending", 0)
                        /\ UNCHANGED buf_stream
                  [] next.poll = "none" ->
                        /\ reader' = [ReadReturn(reader, "ok", 0) EXCEPT !.eof = TRUE]
                        /\ UNCHANGED buf_stream
                  [] next.poll = "some" ->
                        /\ reader' = DoRead(reader, next.msg)
                        /\ buf_stream' = Received(buf_stream)
    /\ obtained' = obtained \o reader'.dest
    /\ UNCHANGED << blockingVars, buf_pool, writer, accepted, written >>

\* What poll_read returns after self.buf_pool_tx.try_send(chunk).
ReturnChunk_strict(res) ==
    CASE res = "ok" -> "ok"
      [] res = "full" -> "panic"
      [] OTHER -> "broken_pipe"

ReturnChunk(res) ==
    CASE res = "ok" -> "ok"
      [] res = "full" -> "panic"
      [] res = "disconnected" -> "ok"
      [] OTHER -> "broken_pipe"

\* match self.buf_pool_tx.try_send(chunk)
PollReadTrySend ==
    /\ reader.pc = "try_send"
    /\ LET res == try_send(buf_pool, chunk_count)
       IN  /\ buf_pool' = IF res = "ok" THEN Sent(buf_pool, reader.local[1]) ELSE buf_pool
           /\ reader' = ReadReturn(reader, ReturnChunk(res), reader.ret)
    /\ UNCHANGED << blockingVars, buf_stream, writer, accepted, obtained, written >>

\* The Reader is dropped: its fields are dropped in declaration order.
ReaderDropCall ==
    /\ chunk_count > 0
    /\ reader.pc = "idle" /\ reader.op # "drop"
    /\ reader' = [reader EXCEPT !.pc = "drop_pool_tx", !.op = "drop"]
    /\ UNCHANGED << blockingVars, buf_pool, buf_stream, writer, accepted, obtained, written >>

\* drop(buf_pool_tx): the last sender closes the pool channel.
ReaderDropPoolTx ==
    /\ reader.pc = "drop_pool_tx"
    /\ buf_pool' = Closed(buf_pool)
    /\ reader' = [reader EXCEPT !.pc = "drop_stream_rx"]
    /\ UNCHANGED << blockingVars, buf_stream, writer, accepted, obtained, written >>

\* drop(buf_stream_rx), drop(chunk): the receiver closes the stream channel
\* and drains it.
ReaderDropStreamRx ==
    /\ reader.pc = "drop_stream_rx"
    /\ buf_stream' = ReceiverDropped(buf_stream)
    /\ reader' = [reader EXCEPT !.pc = "idle", !.chunk = << >>]
    /\ UNCHANGED << blockingVars, buf_pool, writer, accepted, obtained, written >>

(***************************************************************************)
(* The chunked pipe: one thread owns the Reader, another the Writer.       *)
(***************************************************************************)
ChunkedWriterRun ==
    \/ PollWriteCall \/ PollWriteIsClosed \/ PollWritePollNext \/ PollWriteTrySend
    \/ PollClose \/ WriterDropCall \/ WriterDropPoolRx \/ WriterDropStreamTx

ChunkedReaderRun ==
    \/ PollReadCall \/ PollReadTake \/ PollReadTrySend
    \/ ReaderDropCall \/ ReaderDropPoolTx \/ ReaderDropStreamRx

\* The state after chunked::new(count), for every count of the model.  No
\* blocking pipe is in use: none of its ends is there to be called.
InitChunked ==
    /\ \E n \in 1..MaxCount : new(n)
    /\ Buffer = NoBuffer
    /\ bounded(1) /\ builder = [capacity |-> 1]
    /\ w = [WriterInit EXCEPT !.op = "drop"]
    /\ r = [ReaderInit EXCEPT !.op = "drop"]
    /\ accepted = << >>
    /\ nconsumed = 0
    /\ obtained = << >>
    /\ written = << >>
    /\ logging = TRUE
    /\ drop_flag = FALSE
    /\ empty_signal = SignalNew
    /\ full_signal = SignalNew

NextChunked == ChunkedWriterRun \/ ChunkedReaderRun

SpecChunked == InitChunked /\ [][NextChunked]_vars

\* Either pipe variant: a blocking pipe or a chunked pipe.
InitVariants == InitPipe \/ InitChunked

NextVariants == NextPipe \/ NextChunked

SpecVariants == InitVariants /\ [][NextVariants]_vars

(***************************************************************************)
(* Claims about the chunked pipe.                                          *)
(***************************************************************************)
\* The step by which a poll_write returns, and any step of a poll_write.
PollWriteStep == writer.op = "poll_write" /\ writer.pc # "idle" /\ writer'.pc # writer.pc

PollWriteReturns == PollWriteStep /\ writer'.pc = "idle"

\* The step by which a poll_read returns.
PollReadReturns == reader.op = "poll_read" /\ reader.pc # "idle" /\ reader'.pc = "idle"

\* A poll_read with a non-empty destination has returned Ready(Ok(0)).
PollReadZero ==
    /\ reader.op = "poll_read" /\ reader.pc = "idle"
    /\ reader.destLen > 0 /\ reader.result = "ok" /\ reader.ret = 0

\* The chunks the reader has received and not drained, and the chunks on
\* their way to it, oldest first.
ChunksOut == reader.chunk \o buf_stream.queue

(***************************************************************************)
(* C12: chunked writes are all-or-nothing and chunk-atomic.  A poll_write  *)
(* that returns Ready(Ok(n)) has n = len(buf) and has sent one chunk that  *)
(* holds exactly buf; every chunk sent and not yet drained is exactly the  *)
(* buffer of one write; a poll_write that returns Pending or an error has  *)
(* sent nothing.                                                           *)
(***************************************************************************)
C12_ChunkAtomic ==
    /\ [](\A i \in 1..Len(ChunksOut) :
             ChunksOut[i].vec = written[Len(written) - Len(ChunksOut) + i])
    /\ [][/\ (PollWriteReturns /\ writer'.result = "ok") =>
                /\ writer'.ret = Len(writer.buf)
                /\ buf_stream'.queue = Append(buf_stream.queue,
                                              [vec |-> writer.buf, position |-> 0])
                /\ written' = Append(written, writer.buf)
          /\ (PollWriteStep /\ writer'.result # "ok") =>
                UNCHANGED << buf_stream, written, accepted >>]_vars

\* With one chunk: a second write of two bytes has succeeded in the chunk a
\* first write of two bytes had used, and is on its way to the reader.
C12_Witness ==
    /\ chunk_count = 1
    /\ Len(written) = 2 /\ Len(written[1]) = 2 /\ Len(written[2]) = 2
    /\ writer.op = "poll_write" /\ writer.pc = "idle"
    /\ writer.result = "ok" /\ writer.ret = 2
    /\ buf_stream.queue = << [vec |-> written[2], position |-> 0] >>

(***************************************************************************)
(* C13: chunked round trip.  The bytes the reads have returned are a       *)
(* prefix of the bytes written, and are all of them once a read with a     *)
(* non-empty destination has returned 0.                                   *)
(***************************************************************************)
C13_RoundTrip ==
    /\ IsPrefix(obtained, accepted)
    /\ PollReadZero => obtained = accepted

(***************************************************************************)
(* C14: close does not discard in-flight data.  A read issued after the    *)
(* writer was closed or dropped returns the bytes sent in order, and       *)
(* returns 0 only after every byte sent has been read.                     *)
(***************************************************************************)
C14_CloseKeepsData ==
    /\ IsPrefix(obtained, accepted)
    /\ (PollReadZero /\ reader.detached0) =>
          /\ obtained = accepted
          /\ ChunksOut = << >>

(***************************************************************************)
(* C15: chunked end-of-stream is sound.  A poll_read with a non-empty      *)
(* destination returns Ready(Ok(0)) only when the stream channel is empty  *)
(* for good and the writer has detached.                                   *)
(***************************************************************************)
C15_EofSound ==
    [][(PollReadReturns /\ PollReadZero') =>
          /\ buf_stream'.queue = << >>
          /\ reader'.chunk = << >>
          /\ WriterDetached']_vars

(***************************************************************************)
(* C16: a poll_write issued after the reader was dropped returns           *)
(* Ready(Err(BrokenPipe)) at its first step, takes no chunk from the pool  *)
(* and sends nothing on the stream channel.                                *)
(***************************************************************************)
C16_WriteAfterReaderDrop ==
    /\ []((writer.op = "poll_write" /\ writer.closed0) =>
             /\ writer.pc \in {"is_closed", "idle"}
             /\ writer.pc = "idle" => writer.result = "broken_pipe")
    /\ [][(PollWriteStep /\ writer.closed0) => UNCHANGED << buf_pool, buf_stream >>]_vars

\* The write has failed although the pool had a chunk for it.
C16_Witness ==
    /\ writer.op = "poll_write" /\ writer.pc = "idle" /\ writer.closed0
    /\ writer.result = "broken_pipe"
    /\ Len(writer.buf) > 0
    /\ buf_pool.queue # << >>

(***************************************************************************)
(* C17: with count = 1 the two ends are serialized.  While the chunk of a  *)
(* successful write is queued or in the reader's hands, and the reader is  *)
(* alive, no poll_write completes.  As stated: every such poll_write       *)
(* returns Pending.                                                        *)
(***************************************************************************)
\* The chunk of a successful write has not been returned to the pool: it is
\* queued, or the reader holds it.
ChunkOut == ChunksOut # << >> \/ reader.local # << >>

\* A poll_write returns while the only chunk is out and the reader is alive.
SerialCase ==
    /\ chunk_count = 1
    /\ PollWriteReturns
    /\ ChunkOut
    /\ reader.op # "drop"

C17_SerialPending == [][SerialCase => writer'.result = "pending"]_vars

(***************************************************************************)
(* C17, amended: such a poll_write returns Pending, or, once the writer    *)
(* itself has closed the pipe with poll_close, Err(BrokenPipe); it never   *)
(* returns Ok and never takes a chunk or sends one.                        *)
(***************************************************************************)
C17_Serial ==
    [][SerialCase =>
          /\ writer'.result = IF is_closed(buf_stream) THEN "broken_pipe" ELSE "pending"
          /\ UNCHANGED << buf_pool, buf_stream, written >>]_vars

\* The writer has been told to wait while the reader is half way through
\* the only chunk.
C17_Witness ==
    /\ chunk_count = 1
    /\ writer.op = "poll_write" /\ writer.pc = "idle" /\ writer.result = "pending"
    /\ Len(written) = 1
    /\ reader.op = "poll_read" /\ reader.pc = "idle"
    /\ reader.chunk # << >> /\ reader.chunk[1].position = 1
    /\ buf_pool.queue = << >>

(***************************************************************************)
(* C18: reads never fail because the peer detached, in both pipes.  A read *)
(* begun after the writer was dropped or closed returns Ok; no read        *)
(* returns BrokenPipe; in the chunked pipe a drained chunk that cannot be  *)
(* returned to the pool because the writer is gone is discarded and the    *)
(* read reports the bytes it drained.                                      *)
(***************************************************************************)
\* The step in which poll_read finds the pool channel closed.
PoolGone == reader.pc = "try_send" /\ ~buf_pool.is_open /\ reader'.pc = "idle"

C18_ReadsNeverFail ==
    /\ [](/\ r.result # "broken_pipe"
          /\ (ReadReturned /\ r.closed0) => r.result = "ok"
          /\ reader.result \notin {"broken_pipe", "panic"}
          /\ (reader.op = "poll_read" /\ reader.pc = "idle" /\ reader.detached0) =>
                reader.result = "ok")
    /\ [][PoolGone =>
             /\ reader'.result = "ok"
             /\ reader'.ret = Len(reader.dest)
             /\ reader'.chunk = << >>
             /\ buf_pool' = buf_pool]_vars

\* The writer has been dropped, and a read begun after that has drained the
\* last chunk and discarded it.
C18_Witness ==
    /\ writer.op = "drop" /\ writer.pc = "idle"
    /\ reader.op = "poll_read" /\ reader.pc = "idle" /\ reader.detached0
    /\ reader.result = "ok" /\ reader.ret = 2
    /\ obtained = accepted
    /\ buf_pool.queue = << >> /\ ~buf_pool.is_open

(***************************************************************************)
(* C21: pull(dest) returns k = min(len(dest), len()), leaves the k oldest  *)
(* live bytes in dest[0..k] in FIFO order and advances head by exactly k,  *)
(* so that len() has decreased by k when no push ran meanwhile;            *)
(* consume(n) advances head by exactly min(n, len()) and never moves head  *)
(* past tail.                                                              *)
(***************************************************************************)
\* The copy_to inside pull returns: the count it hands to consume.
PullCopied == r.op = "pull" /\ r.pc \in {"copy_tail", "copy"} /\ r'.pc = "consume_head"

\* consume has read the length and clamps its count.
ConsumeClamps ==
    r.op \in {"pull", "consume"} /\ r.pc = "consume_tail" /\ r'.pc = "consume_add"

\* consume, and with it pull, returns.
ConsumeReturns == r.op \in {"pull", "consume"} /\ r.pc = "consume_add" /\ r'.pc = "idle"

C21_PullConsume ==
    [][ /\ PullCopied =>
            /\ r'.n = Min(r.destLen, IF r.pc = "copy" THEN wrapping_sub(r.tail, head) ELSE len)
            /\ r'.dest = SubSeq(accepted, nconsumed + 1, nconsumed + r'.n)
        /\ ConsumeClamps =>
            /\ r'.count = Min(r.n, len)
            /\ r.op = "pull" => r'.count = r.n
        /\ ConsumeReturns =>
            /\ r'.ret = r.count /\ r'.result = "ok"
            /\ r.count <= len
            /\ head' = wrapping_add(head, r.count)
            /\ tail' = tail
            /\ wrapping_sub(tail', head') = len - r.count
            /\ r.op = "pull" =>
                  /\ r.count = Len(r.dest)
                  /\ r'.dest = SubSeq(accepted, nconsumed + 1, nconsumed + r.count)
      ]_vars

\* A pull has returned two bytes and emptied the buffer after the cursors
\* wrapped; a consume before it had been clamped.
C21_Witness ==
    /\ r.op = "pull" /\ r.pc = "idle" /\ r.result = "ok" /\ r.ret = 2
    /\ r.dest = << nconsumed - 1, nconsumed >>
    /\ len = 0 /\ head < 2 /\ nconsumed > Modulus
    /\ Len(obtained) = nconsumed

(***************************************************************************)
(* internal/sync.rs: a Signal used directly.  One thread calls wait and    *)
(* another calls notify on the same Signal (here the data-available        *)
(* signal, so the waiter is the reader thread and the notifier the writer  *)
(* thread; nothing touches the buffer).                                    *)
(***************************************************************************)
\* The number of notify calls of a run.
MaxNotifies == 3

\* signal.wait().  History: mark holds the notified flag, and the count of
\* notify calls the waits before had cleared, as the call begins.
CallWait ==
    /\ r.pc = "idle"
    /\ r' = [r EXCEPT !.pc = "wait_fast", !.op = "wait", !.result = "none",
                      !.parked = FALSE, !.fed = FALSE,
                      !.mark = << empty_signal.notified, r.cleared >>]
    /\ UNCHANGED << ringVars, histVars, w, pipeVars >>

\* signal.notify().  History: a wait that is running has a notify invoked
\* after its start.
CallNotify ==
    /\ w.pc = "idle"
    /\ w.notifies < MaxNotifies
    /\ w' = [w EXCEPT !.pc = "notify_store", !.op = "notify", !.result = "none"]
    /\ r' = IF r.op = "wait" /\ r.pc # "idle" THEN [r EXCEPT !.fed = TRUE] ELSE r
    /\ UNCHANGED << ringVars, histVars, pipeVars >>

NextSignal ==
    \/ CallWait \/ ReaderWaitSteps \/ ReaderSpuriousWake
    \/ CallNotify \/ WriterNotifySteps

\* Any use of one Signal by a waiting and a notifying thread.
SpecSignal == InitPipe /\ [][NextSignal]_vars

\* A thread inside wait or notify keeps running; nothing makes a thread call
\* again, and nothing makes the condition variable wake up spuriously.
SpecSignalFair == SpecSignal /\ WF_vars(ReaderWaitSteps) /\ WF_vars(WriterNotifySteps)

\* A wait on the signal is running, and it has returned.
Waiting == r.op = "wait" /\ r.pc # "idle"

Waited == r.op = "wait" /\ r.pc = "idle"

\* The step of wait that observes the flag set and clears it.
WaitClears ==
    /\ r.op = "wait" /\ r.pc \in {"wait_fast", "wait_check"}
    /\ r'.pc \in {"idle", "wait_unlock"}

(***************************************************************************)
(* C22: no lost wake-up.  With one thread in wait() and another calling    *)
(* notify(): a wait() that has a notify() invoked at or after its start    *)
(* eventually returns, and the waiter is never left parked on the          *)
(* condition variable with the notified flag set (only while the notify    *)
(* that set the flag is still on its way to waking it).                    *)
(***************************************************************************)
C22_NoLostWakeup ==
    /\ [](r.pc = "wait_parked" /\ empty_signal.notified
            => w.pc \in {"notify_load", "notify_lock", "notify_wake"})
    /\ ((Waiting /\ r.fed) ~> Waited)

\* A wait that had parked has returned after the notify invoked meanwhile.
C22_Witness == Waited /\ r.fed /\ r.parked /\ w.pc = "idle" /\ r.waits = 1

(***************************************************************************)
(* C23: the signal is sticky.  A notify() that completes before any wait() *)
(* begins is not lost: the flag stays set, and the next wait() returns     *)
(* immediately, without parking, and clears the flag.                      *)
(***************************************************************************)
C23_Sticky ==
    /\ [](r.op = "none" /\ w.notifies >= 1 => empty_signal.notified)
    /\ [](r.op = "wait" /\ r.mark[1] =>
              r.pc \in {"wait_fast", "idle"} /\ ~r.parked)
    /\ [][r.op = "wait" /\ r.mark[1] /\ r.pc = "wait_fast" /\ r'.pc # r.pc =>
              r'.pc = "idle" /\ ~empty_signal'.notified]_vars

\* The first wait began after a notify had completed, and has returned.
C23_Witness ==
    /\ Waited /\ r.mark[1] /\ r.waits = 1 /\ ~r.parked
    /\ w.notifies = 1 /\ w.pc = "idle" /\ ~empty_signal.notified

(***************************************************************************)
(* C24: the signal coalesces.  After N >= 1 notify() calls followed by a   *)
(* wait() that returns, the flag is clear, whatever N was; a wait() then   *)
(* returns only after a further notify(): a second wait() with no          *)
(* intervening notify() parks.  The signal never stores more than one      *)
(* pending wake-up.                                                        *)
(***************************************************************************)
C24_Coalesces ==
    /\ [](r.cleared >= 1 /\ w.notifies = r.cleared => ~empty_signal.notified)
    /\ [][WaitClears => w.notifies > r.cleared /\ ~empty_signal'.notified]_vars

\* Two notify calls, one wait that returned, and the second wait is parked.
C24_Witness ==
    /\ w.notifies = 2 /\ w.pc = "idle" /\ r.waits = 1 /\ r.cleared = 2
    /\ r.op = "wait" /\ r.pc = "wait_parked" /\ ~empty_signal.notified

(***************************************************************************)
(* C25: no spurious return.  wait() returns only after itself observing    *)
(* the flag set and clearing it; woken with the flag clear it parks        *)
(* again; the number of completed wait() calls never exceeds the number    *)
(* of notify() calls.                                                      *)
(***************************************************************************)
C25_NoSpuriousReturn ==
    /\ [](r.waits <= w.notifies)
    /\ [][ /\ WaitClears => empty_signal.notified /\ ~empty_signal'.notified
           /\ Waiting /\ r'.pc = "idle" => r'.cleared > r.mark[2]
           /\ r.op = "wait" /\ r.pc = "wait_check" /\ r'.pc # r.pc /\ ~empty_signal.notified
                 => r'.pc = "wait_parked"
         ]_vars

\* A wait that had parked is awake with nothing notified since the flag
\* was last cleared: it looks at the flag and will park again.
C25_Witness ==
    /\ r.op = "wait" /\ r.pc = "wait_check" /\ r.parked /\ ~empty_signal.notified
    /\ w.pc = "idle" /\ w.notifies = r.waits /\ r.waits >= 1

(***************************************************************************)
(* C26: every successful transfer notifies the peer's signal.  Every       *)
(* PipeReader::read that returns n > 0 notifies the space-available        *)
(* signal before returning and every PipeWriter::write that returns n > 0  *)
(* notifies the data-available signal before returning, the transfers      *)
(* that complete after the call has waited included: the step by which     *)
(* such a call returns is the last step of its Signal::notify.             *)
(***************************************************************************)
\* The step by which a read, or a write, returns Ok(n) with n > 0.
ReadTransfers ==
    /\ r.op = "read" /\ r.pc # "idle"
    /\ r'.pc = "idle" /\ r'.result = "ok" /\ r'.ret > 0

WriteTransfers ==
    /\ w.op = "write" /\ w.pc # "idle"
    /\ w'.pc = "idle" /\ w'.result = "ok" /\ w'.ret > 0

C26_TransferNotifies ==
    [][ /\ ReadTransfers => r.pc \in {"notify_load", "notify_wake"}
        /\ WriteTransfers => w.pc \in {"notify_load", "notify_wake"}
      ]_vars

(***************************************************************************)
(* C27: the blocking pipe is deadlock-free.  With both ends alive and in   *)
(* blocking mode, no reachable state has the reader parked on the          *)
(* data-available signal and the writer parked on the space-available      *)
(* signal at the same time with neither notified flag set.                 *)
(***************************************************************************)
C27_DeadlockFree ==
    ~ /\ r.pc = "wait_parked" /\ w.pc = "wait_parked"
      /\ ~empty_signal.notified /\ ~full_signal.notified

(***************************************************************************)
(* The handles of the ring buffer used by two threads: the writer thread   *)
(* calls push and Writer::clear, the reader thread calls copy_to.          *)
(***************************************************************************)
\* The bytes pushed in these runs: push is called while tail is below it.
MaxSharedTotal == 3

CallPushShared == tail < MaxSharedTotal /\ CallPush

NextRingShared ==
    \/ CallPushShared \/ PushSteps
    \/ CallWriterClear \/ WriterClearLoadTail \/ WriterClearStore
    \/ CallCopyTo \/ CopyToSteps

SpecRingShared == InitRingClear /\ [][NextRingShared]_vars

\* The slots of the reader-visible window [head, tail).
LiveSlots == {internal_index(array, wrapping_add(head, i)) : i \in 0..(len - 1)}

(***************************************************************************)
(* C28: exclusive region ownership.  Under every interleaving, push stores *)
(* only into slots outside the reader-visible window [head, tail) and      *)
(* publishes them only after the stores, so copy_to never reads a slot     *)
(* that is being written concurrently or that was never written, and push  *)
(* never overwrites a byte that has not been consumed.                     *)
(***************************************************************************)
C28_ExclusiveRegions ==
    /\ wslots \cap LiveSlots = {}
    /\ wslots \cap rslots = {}
    /\ r.racy = {}
    /\ \A i \in rslots : array[i + 1] # Uninit

(***************************************************************************)
(* C29: cursor ownership.  head is modified only by Reader operations and  *)
(* tail only by Writer operations: every step of a Writer operation        *)
(* (push, clear) leaves head unchanged and every step of a Reader          *)
(* operation (copy_to, consume, pull, clear) leaves tail unchanged.        *)
(***************************************************************************)
C29_CursorOwnership ==
    [][ /\ w' # w => head' = head
        /\ r' # r => tail' = tail
      ]_vars

(***************************************************************************)
(* C30: chunk conservation.  While both ends of the chunked pipe are       *)
(* alive, the chunks in the pool channel, in the stream channel, held by   *)
(* the writer in a poll_write and held by the reader together number the   *)
(* count given at construction, each chunk being in one place; the number  *)
(* never grows, and a chunk is discarded only once an end has been         *)
(* dropped.                                                                *)
(***************************************************************************)
\* The chunks there are: in the two channels, in the writer's hands
\* (poll_write's local), in the reader's (Reader.chunk, poll_read's local).
Chunks ==
    Len(buf_pool.queue) + Len(buf_stream.queue) + Len(writer.chunk)
        + Len(reader.chunk) + Len(reader.local)

\* Neither the Reader nor the Writer has been dropped.
BothAlive == chunk_count > 0 /\ writer.op # "drop" /\ reader.op # "drop"

C30_ChunkConservation ==
    /\ [](BothAlive => Chunks = chunk_count)
    /\ [][ /\ Chunks' <= Chunks
           /\ Chunks' < Chunks => writer.op' = "drop" \/ reader.op' = "drop"
         ]_vars

\* Both ends alive, a chunk in the writer's hands inside poll_write and a
\* drained chunk in the reader's on its way back to the pool.
C30_Witness ==
    /\ BothAlive /\ chunk_count = 2
    /\ writer.pc = "try_send" /\ Len(writer.chunk) = 1
    /\ reader.pc = "try_send" /\ Len(reader.local) = 1
    /\ buf_pool.queue = << >> /\ buf_stream.queue = << >>

(***************************************************************************)
(* C31: the accounting panics of the chunked pipe are unreachable.  For    *)
(* every count >= 1 and every sequence of writes, reads, close and drops,  *)
(* neither the pool channel nor the stream channel is sent a chunk while   *)
(* it already holds count chunks: no try_send fails with "full" and        *)
(* "buffer pool overflow" is never raised.                                 *)
(***************************************************************************)
C31_NoOverflow ==
    /\ writer.result # "panic" /\ reader.result # "panic"
    /\ Len(buf_pool.queue) <= chunk_count /\ Len(buf_stream.queue) <= chunk_count
    /\ writer.pc = "try_send" =>
          Len(buf_stream.queue) < chunk_count /\ try_send(buf_stream, chunk_count) # "full"
    /\ reader.pc = "try_send" =>
          Len(buf_pool.queue) < chunk_count /\ try_send(buf_pool, chunk_count) # "full"

\* Every chunk has been written and sits in the stream channel, and the
\* reader has returned a chunk to the pool before.
C31_Witness ==
    /\ chunk_count = 2 /\ Len(buf_stream.queue) = 2
    /\ writer.op = "poll_write" /\ writer.pc = "idle" /\ writer.result = "ok"
    /\ reader.op = "poll_read" /\ reader.pc = "idle" /\ reader.result = "ok"
    /\ Len(obtained) > 0

(***************************************************************************)
(* C32: every chunk in the pool channel is reset, its byte storage empty   *)
(* and its read cursor 0, initially and after every return by the reader,  *)
(* so that a chunk handed to the stream channel holds exactly the bytes of *)
(* the one write that filled it.                                           *)
(***************************************************************************)
C32_PoolChunksReset ==
    /\ \A i \in 1..Len(buf_pool.queue) :
          buf_pool.queue[i].vec = << >> /\ buf_pool.queue[i].position = 0
    /\ reader.pc = "try_send" =>
          reader.local[1].vec = << >> /\ reader.local[1].position = 0
    /\ writer.pc = "try_send" =>
          writer.chunk[1].vec = writer.buf /\ writer.chunk[1].position = 0

\* The writer is about to send a chunk that the reader had filled, drained
\* and returned to the pool before.
C32_Witness ==
    /\ chunk_count = 1 /\ writer.pc = "try_send"
    /\ Len(writer.buf) = 2 /\ writer.chunk[1].vec = writer.buf
    /\ Len(written) >= 1 /\ Len(written[1]) = 2 /\ obtained = accepted

(***************************************************************************)
(* C37: a single chunked poll_read never returns bytes from more than one  *)
(* write.  It drains at most the remainder of one chunk, and a partially   *)
(* drained chunk is fully consumed by later reads before any byte of the   *)
(* next chunk is returned.                                                 *)
(***************************************************************************)
\* The bytes the first i writes have sent.
RECURSIVE SentBy(_)
SentBy(i) == IF i = 0 THEN 0 ELSE SentBy(i - 1) + Len(written[i])

\* The write that sent the byte at position b of the stream.
WriteOf(b) == CHOOSE i \in 1..Len(written) : SentBy(i - 1) < b /\ b <= SentBy(i)

C37_OneChunkPerRead ==
    /\ reader.op = "poll_read" =>
          \A i, j \in 1..Len(reader.dest) : WriteOf(reader.dest[i]) = WriteOf(reader.dest[j])
    /\ IsPrefix(obtained, accepted)
    /\ reader.chunk # << >> =>
          LET chunk == reader.chunk[1]
              left  == Len(chunk.vec) - chunk.position
          IN  /\ left > 0
              /\ SubSeq(chunk.vec, chunk.position + 1, Len(chunk.vec))
                   = SubSeq(accepted, Len(obtained) + 1, Len(obtained) + left)

\* A read into a buffer of two has returned the one byte left of the chunk
\* it held, although the next chunk was waiting in the stream channel.
C37_Witness ==
    /\ reader.op = "poll_read" /\ reader.pc = "idle" /\ reader.result = "ok"
    /\ reader.destLen = 2 /\ reader.ret = 1 /\ reader.chunk = << >>
    /\ Len(written) >= 2 /\ Len(written[1]) = 2 /\ Len(obtained) = 2
    /\ buf_stream.queue # << >> /\ Len(buf_stream.queue[1].vec) > 0

(***************************************************************************)
(* C38: after the chunked writer's poll_close has run, every subsequent    *)
(* poll_write on that writer returns Ready(Err(BrokenPipe)), removes no    *)
(* chunk from the pool and delivers nothing to the reader, even though the *)
(* reader is still alive.                                                  *)
(***************************************************************************)
\* A poll_write called after the writer's poll_close, the Reader not dropped.
WriteAfterClose == writer.op = "poll_write" /\ WriterDetached

C38_WriteAfterClose ==
    /\ [](WriteAfterClose =>
            /\ writer.pc \in {"is_closed", "idle"}
            /\ writer.chunk = << >>
            /\ writer.pc = "idle" => writer.result = "broken_pipe" /\ writer.ret = 0)
    /\ [][WriteAfterClose /\ writer' # writer =>
            UNCHANGED << buf_pool, buf_stream, accepted, written >>]_vars

\* A poll_write has returned BrokenPipe after poll_close while a chunk was
\* in the pool and the reader alive and half way through an earlier chunk.
C38_Witness ==
    /\ WriteAfterClose /\ writer.pc = "idle" /\ writer.result = "broken_pipe"
    /\ buf_pool.queue # << >> /\ buf_pool.is_open
    /\ reader.op = "poll_read" /\ reader.chunk # << >>

(***************************************************************************)
(* C33: dropping either end of the blocking pipe sets the shared closed    *)
(* flag and then notifies both signals, data-available and                 *)
(* space-available; the flag only ever changes from false to true, and     *)
(* only in a drop.  (With a peer that has never made a call nothing clears *)
(* a notified flag, so after the drop both flags are set.)                 *)
(***************************************************************************)
C33_DropNotifiesBoth ==
    /\ [][drop_flag' # drop_flag =>
            /\ ~drop_flag /\ drop_flag'
            /\ r.pc = "drop_store" \/ w.pc = "drop_store"]_vars
    /\ [](r.pc = "dropped" \/ w.pc = "dropped" => drop_flag)
    /\ [](r.pc = "dropped" /\ w.op = "none" =>
            empty_signal.notified /\ full_signal.notified)
    /\ [](w.pc = "dropped" /\ r.op = "none" =>
            empty_signal.notified /\ full_signal.notified)

(***************************************************************************)
(* C36: end-of-stream of the blocking pipe is sticky.  Once a read called  *)
(* with a non-empty buffer has returned Ok(0), every later read with a     *)
(* non-empty buffer on that reader returns Ok(0) as well: no read returns  *)
(* data after an earlier read reported end-of-stream.                      *)
(***************************************************************************)
C36_EofSticky ==
    (ReadReturned /\ r.eof /\ r.destLen > 0) => (r.result = "ok" /\ r.ret = 0)

(***************************************************************************)
(* C34: cursor overflow is harmless.  With head and tail w-bit counters    *)
(* that wrap modulo 2^w and a power-of-two capacity <= 2^(w-1), len() =    *)
(* (tail - head) mod 2^w is the true number of live bytes (accepted minus  *)
(* consumed), the full test tail - head == capacity is exact, and the FIFO *)
(* contents are preserved across the point where a counter wraps.          *)
(***************************************************************************)
\* The bytes pushed and not consumed.
Live == Len(accepted) - nconsumed

\* The step in which push makes its full test.
PushTestsFull == w.op = "push" /\ w.pc = "push_tail" /\ w'.pc # "push_tail"

C34_WrapHarmless ==
    /\ [](capacity <= Pow2(CursorBits - 1) => len = Live /\ len <= capacity)
    /\ [](head = nconsumed % Modulus /\ tail = Len(accepted) % Modulus)
    /\ [](IsPrefix(obtained, accepted))
    /\ [][PushTestsFull =>
            LET seen == wrapping_sub(tail, w.head)
            IN  /\ Live <= seen /\ seen <= capacity
                /\ (w'.pc = "idle" /\ w'.ret = 0) <=> seen = capacity
                /\ (Live = capacity) => seen = capacity]_vars

\* tail has wrapped past its maximum and head has not; the buffer is full,
\* a push has found it full, and everything consumed came out in order.
C34_Witness ==
    /\ tail < head /\ Len(accepted) >= Modulus /\ nconsumed < Modulus
    /\ capacity >= 2 /\ len = capacity
    /\ w.op = "push" /\ w.pc = "idle" /\ w.ret = 0
    /\ obtained = SubSeq(accepted, 1, nconsumed)

(***************************************************************************)
(* lib.rs: Buffer, the growable ring buffer with a single owner.  Its      *)
(* methods take &mut self (copy_to: &self), so a call is one step.  The    *)
(* record buffer holds the fields array, head and len, and as history the  *)
(* last call op, the count it returned ret and the bytes dest[0..ret] it   *)
(* left in the destination.                                                *)
(***************************************************************************)
\* arrays::allocate: the contents are not initialized.
allocate(n) == [i \in 1..n |-> Uninit]

\* arrays::copy(src, src_offset, dest, dest_offset, len), as lib.rs calls
\* it: dest[dest_offset + i] = src[src_offset + i] for i < len.
copy_into(src, src_offset, dest, dest_offset, n) ==
    [p \in 1..Len(dest) |->
        IF dest_offset < p /\ p <= dest_offset + n
        THEN src[src_offset + (p - dest_offset)]
        ELSE dest[p]]

\* Buffer::with_capacity
with_capacity(c) ==
    [NoBuffer EXCEPT !.array = allocate(next_power_of_two(c)), !.op = "with_capacity"]

\* Buffer::offset: (index + self.head) & (self.capacity() - 1)
Buffer_offset(b, index) == BitAnd(index + b.head, Len(b.array) - 1)

\* Buffer::copy_to: the destination after the call (the count returned is
\* min(Len(dest), b.len)).
Buffer_copy_to(b, dest) ==
    LET count == Min(Len(dest), b.len)
        t     == Buffer_offset(b, count)
    IN  IF count = 0 THEN dest
        ELSE IF t <= b.head
        THEN LET head_len == Len(b.array) - b.head
             IN  copy_into(b.array, 0, copy_into(b.array, b.head, dest, 0, head_len),
                           head_len, t)
        ELSE copy_into(b.array, b.head, dest, 0, count)

\* Buffer::consume
Buffer_consume(b, n) ==
    LET count == Min(n, b.len)
    IN  [b EXCEPT !.head = Buffer_offset(b, count), !.len = @ - count]

\* Buffer::push: the growth of the array, then the copy of src in the
\* region up to the end of the array and the region at its start.
Buffer_push(b, src) ==
    LET new_len == b.len + Len(src)
        grown   == IF new_len > Len(b.array)
                   THEN [b EXCEPT !.array = Buffer_copy_to(b, allocate(next_power_of_two(new_len))),
                                  !.head = 0]
                   ELSE b
        cap     == Len(grown.array)
        head_available == IF cap >= grown.head + grown.len
                          THEN cap - (grown.head + grown.len) ELSE 0
        copy_to_head == Min(Len(src), head_available)
        copy_to_tail == Len(src) - copy_to_head
        a1 == IF copy_to_head > 0
              THEN copy_into(src, 0, grown.array, Buffer_offset(grown, grown.len), copy_to_head)
              ELSE grown.array
        a2 == IF copy_to_tail > 0
              THEN copy_into(src, copy_to_head, a1, 0, copy_to_tail)
              ELSE a1
    IN  [grown EXCEPT !.array = a2, !.len = new_len]

\* What a destination read out of uninitialized slots can hold.
Settled(raw) ==
    {d \in [1..Len(raw) -> Byte] : \A i \in 1..Len(raw) : raw[i] # Uninit => d[i] = raw[i]}

\* Everything but the Buffer and the histories of its bytes.
restVars ==
    << ringVars, w, r, pipeVars, logging, builder, chunk_count, buf_pool, buf_stream,
       reader, writer, written >>

\* buffer.push(src)
BufferPush ==
    /\ Buffer.op # "none"
    /\ \E n \in 0..MaxSlice :
          /\ Len(accepted) + n <= MaxTotal
          /\ LET src == Stream(Len(accepted), n)
             IN  /\ Buffer' = [Buffer_push(Buffer, src) EXCEPT
                                  !.op = "push", !.ret = n, !.dest = << >>]
                 /\ accepted' = accepted \o src
    /\ UNCHANGED << restVars, nconsumed, obtained >>

\* buffer.consume(count)
BufferConsume ==
    /\ Buffer.op # "none"
    /\ \E n \in 0..MaxSlice :
          /\ Buffer' = [Buffer_consume(Buffer, n) EXCEPT
                           !.op = "consume", !.ret = Min(n, Buffer.len), !.dest = << >>]
          /\ nconsumed' = nconsumed + Min(n, Buffer.len)
    /\ UNCHANGED << restVars, accepted, obtained >>

\* buffer.copy_to(dest)
BufferCopyTo ==
    /\ Buffer.op # "none"
    /\ \E n \in 0..MaxSlice :
          LET count == Min(n, Buffer.len)
              raw   == SubSeq(Buffer_copy_to(Buffer, allocate(n)), 1, count)
          IN  \E d \in Settled(raw) :
                 Buffer' = [Buffer EXCEPT !.op = "copy_to", !.ret = count, !.dest = d]
    /\ UNCHANGED << restVars, accepted, nconsumed, obtained >>

\* buffer.pull(dest): let count = self.copy_to(dest); self.consume(count)
BufferPull ==
    /\ Buffer.op # "none"
    /\ \E n \in 0..MaxSlice :
          LET count == Min(n, Buffer.len)
              raw   == SubSeq(Buffer_copy_to(Buffer, allocate(n)), 1, count)
          IN  \E d \in Settled(raw) :
                 /\ Buffer' = [Buffer_consume(Buffer, count) EXCEPT
                                  !.op = "pull", !.ret = count, !.dest = d]
                 /\ nconsumed' = nconsumed + count
                 /\ obtained' = obtained \o d
    /\ UNCHANGED << restVars, accepted >>

\* A Buffer created by with_capacity; no pipe is in use.
InitGrowable ==
    /\ \E c \in 1..MaxCapacity : Buffer = with_capacity(c)
    /\ bounded(1) /\ builder = [capacity |-> 1]
    /\ w = [WriterInit EXCEPT !.op = "drop"]
    /\ r = [ReaderInit EXCEPT !.op = "drop"]
    /\ chunk_count = 0
    /\ buf_pool = Channel(<< >>, FALSE)
    /\ buf_stream = Channel(<< >>, FALSE)
    /\ reader = ChunkedReaderInit
    /\ writer = ChunkedWriterInit
    /\ written = << >>
    /\ accepted = << >>
    /\ nconsumed = 0
    /\ obtained = << >>
    /\ logging = TRUE
    /\ drop_flag = FALSE
    /\ empty_signal = SignalNew
    /\ full_signal = SignalNew

NextGrowable == BufferPush \/ BufferConsume \/ BufferCopyTo \/ BufferPull

\* Any sequence of push, consume, copy_to and pull on one Buffer.
SpecGrowable == InitGrowable /\ [][NextGrowable]_vars

(***************************************************************************)
(* C35: the growable Buffer is FIFO under every sequence of push, consume  *)
(* and pull.  push accepts all of src, growing the array to a power of two *)
(* when needed; len is the bytes pushed minus the bytes consumed; the      *)
(* bytes copy_to and pull return are the oldest unconsumed pushed bytes in *)
(* push order, also after a push made while the live region wraps past    *)
(* the end of the array and after a push that forces a resize.             *)
(***************************************************************************)
\* The bytes a copy_to or pull that returned k bytes must have returned.
Oldest(k) ==
    LET from == IF Buffer.op = "pull" THEN nconsumed - k ELSE nconsumed
    IN  SubSeq(accepted, from + 1, from + k)

C35_GrowableFifo ==
    /\ Buffer.len = Len(accepted) - nconsumed
    /\ Buffer.len <= Len(Buffer.array)
    /\ Len(Buffer.array) = next_power_of_two(Len(Buffer.array))
    /\ Buffer.op \in {"copy_to", "pull"} => Buffer.dest = Oldest(Buffer.ret)

====
